---------------------------- MODULE Spec2Model ----------------------------
(***************************************************************************)
(* Max Open microsite: the tournament computation engine.                  *)
(*                                                                         *)
(* The module models the round-robin scheduler (roundRobin), the seeder    *)
(* (splitSnake, splitGroups) and the standings calculator (calcStandings)  *)
(* of the React component, each under a specification of its own:          *)
(*                                                                         *)
(*   SpecSchedule    roundRobin applied to every bounded list of teams     *)
(*   SpecSeed        the seeding controls: the algorithm select and        *)
(*                   "Pouzit nasazeni" over every bounded ranking          *)
(*   SpecStandings   calcStandings over a roster and its result map,       *)
(*                   edited by updateScore and clearMatch                  *)
(*                                                                         *)
(* All specifications share the variables; each parks the variables of     *)
(* the other components at their idle values.                              *)
(***************************************************************************)
EXTENDS Integers, Sequences, FiniteSets, TLC

VARIABLES
    teams,            \* roundRobin: the argument
    schedule,         \* roundRobin: the returned schedule
    pc,               \* roundRobin: "input" before the call, "done" after it
    ranking,          \* App: the master ranking, a sequence of [name, rank]
    seedingAlgo,      \* App: the selected algorithm identifier
    playersA,         \* App: group A
    playersB,         \* App: group B
    state,            \* App: the result maps, [A |-> ..., B |-> ...]
    bracket,          \* App: the playoff bracket of the last render
    auth,             \* App: whether editing is unlocked
    password,         \* App: the text of the password input
    edits,            \* the number of edits of the ranking so far
    discarded,        \* history: the score texts the last seeding discarded
    seededWith,       \* history: the identifier the groups were split with
    selectChanged,    \* history: whether the algorithm select was changed
    readerResult,     \* onImport: the text of the file last read
    alerted,          \* onImport: the alert the last import raised, "" for none
    draggedIndex,     \* drag and drop: <<>> for null, <<idx>> for the index dragged
    localStorage      \* the item under the storage key: <<>> for none, <<item>>

vars == <<teams, schedule, pc, ranking, seedingAlgo, playersA, playersB,
          state, bracket, auth, password, edits, discarded, seededWith,
          selectChanged, readerResult, alerted, draggedIndex,
                   localStorage>>

---------------------------------------------------------------------------
(* Bounds and input universes *)

\* The longest list of teams handed to roundRobin.
MaxTeams == 5

\* The longest ranking handed to the seeder.
MaxRanking == 6

\* The rank values an entry of the ranking may carry before a split.
CarriedRanks == {1, 99}

\* The longest roster handed to calcStandings.
MaxRoster == 3

\* The most score fields of a group that hold a text at any one time.
MaxFilled == 2

\* The largest group handed to the bracket.
MaxGroup == 4

\* How many of the initial participants the ranking starts with.
InitialPlayers == 2

\* The longest ranking addPlayer is used on.
MaxPlayers == 3

\* The most edits of the ranking in one behaviour.
MaxEdits == 1

\* The most edits of the ranking in one behaviour of the ranking editor
\* taken alone.
MaxRankingEdits == 3

\* How many of the initial participants a session with reloads starts with.
SessionPlayers == 3

\* The texts typed into a score field while the ranking editor and the
\* seeding are in use: the empty text and a numeral.
TypedTexts == {"", "4"}

\* The most inputs of one behaviour of the page: the edits of the ranking
\* made so far plus the score fields, over both groups, that hold a text.
MaxTyped == 2

\* The texts typed into a name field of the ranking editor: the empty text
\* and the name of another participant.
RenameTexts == {"", "Pochy"}

\* The texts typed into the password field.
PasswordTexts == {"tottowolf", "wolf"}

\* The options of the algorithm select.
SelectOptions == {"had", "prumer"}

\* The texts typed into a score field: unset, two numbers, not a number.
ScoreTexts == {"", "2", "4", "x"}

\* Names that are in no roster: a plain one, and one that Object.prototype
\* also knows.
StaleNames == {"Zed", "constructor"}

\* The identifiers handed to splitGroups: the two options of the algorithm
\* select, and the two identifiers of the interface description.
AlgoIdentifiers == {"had", "prumer", "snake", "split-half"}

\* Competitor names; the model uses a prefix of this list.
AllNames == <<"Ann", "Bob", "Cyd", "Dan", "Eve", "Fay", "Gus", "Hal", "Ian", "Jan">>

Names(k) == {AllNames[i] : i \in 1..k}

\* All sequences of length n over S without repetition.
RECURSIVE Injections(_, _)
Injections(S, n) ==
    IF n = 0 THEN {<<>>}
    ELSE UNION {{Append(s, x) : x \in S \ {s[i] : i \in 1..Len(s)}} :
                s \in Injections(S, n - 1)}

\* A list of names as competitors ranked by position.
AsCompetitors(ns) == [i \in 1..Len(ns) |-> [name |-> ns[i], rank |-> i]]

TeamInputs ==
    UNION {{AsCompetitors(ns) : ns \in Injections(Names(MaxTeams), n)} :
           n \in 0..MaxTeams}

\* The first n names, rotated by s, each with a carried rank.
RankingInputs ==
    UNION {{[i \in 1..n |-> [name |-> AllNames[((i - 1 + s) % n) + 1], rank |-> c[i]]] :
                s \in 0..(IF n = 0 THEN 0 ELSE n - 1), c \in [1..n -> CarriedRanks]} :
           n \in 0..MaxRanking}

\* The first n names, with ranks ascending, descending or all equal.
RosterInputs ==
    UNION {{[i \in 1..n |-> [name |-> AllNames[i], rank |-> i]],
            [i \in 1..n |-> [name |-> AllNames[i], rank |-> n + 1 - i]],
            [i \in 1..n |-> [name |-> AllNames[i], rank |-> 1]]} :
           n \in 0..MaxRoster}

NameSet(list) == {list[i].name : i \in 1..Len(list)}

---------------------------------------------------------------------------
(* Scheduler: roundRobin *)

\* The bye placeholder appended to an odd list.
BYE == [name |-> "VOLNO", bye |-> TRUE]

\* a?.bye
isBye(x) == "bye" \in DOMAIN x /\ x.bye

\* const t = [...teams]; if (BYE) t.push(BYE)
withBye(list) == IF Len(list) % 2 = 1 THEN Append(list, BYE) ELSE list

\* A faulty variant of rounds: one round too many.
roundsTooMany(n) == n

\* const rounds = n - 1
rounds(n) == n - 1

\* const half = n / 2
half(n) == n \div 2

\* A faulty variant of pairs: the pairing with the bye is not dropped.
pairsKeepBye(t) ==
    [i \in 1..half(Len(t)) |-> <<t[i].name, t[Len(t) + 1 - i].name>>]

\* The inner loop: pair t[i] with t[n-1-i], dropping pairs with the bye.
pairs(t) ==
    LET n    == Len(t)
        cand == [i \in 1..half(n) |-> <<t[i], t[n + 1 - i]>>]
        kept == SelectSeq(cand, LAMBDA p : ~(isBye(p[1]) \/ isBye(p[2])))
    IN  [i \in 1..Len(kept) |-> <<kept[i][1].name, kept[i][2].name>>]

\* A faulty variant of rotate: the first entry rotates too.
rotateAll(t) == <<t[Len(t)]>> \o SubSeq(t, 1, Len(t) - 1)

\* t.splice(1, 0, t.pop()): the last entry moves to index 1.
rotate(t) ==
    LET last == t[Len(t)]
        rest == SubSeq(t, 1, Len(t) - 1)
    IN  IF rest = <<>> THEN <<last>>
        ELSE <<rest[1], last>> \o Tail(rest)

\* for (let r = 0; r < rounds; r++) { ... }
RECURSIVE roundLoop(_, _, _)
roundLoop(t, r, sched) ==
    IF r < rounds(Len(t))
    THEN roundLoop(rotate(t), r + 1,
                   Append(sched, [round |-> r + 1, matches |-> pairs(t)]))
    ELSE sched

roundRobin(list) == roundLoop(withBye(list), 0, <<>>)

---------------------------------------------------------------------------
(* Result records: idFor, emptyResults *)

\* The places <<r, i>> of the pairings of a schedule.
Slots(sched) ==
    UNION {{<<r, i>> : i \in 1..Len(sched[r].matches)} : r \in 1..Len(sched)}

\* `${group}::${a}__${b}`
idFor(group, a, b) == group \o "::" \o a \o "__" \o b

\* schedule.forEach(... matches.forEach(([a, b]) => out[idFor(group, a, b)] =
\* { a, b, round, ag: '', bg: '' })): a later pairing with the same identifier
\* overwrites an earlier one.
emptyResults(sched, group) ==
    LET S == Slots(sched)
        keyOf(s) == idFor(group, sched[s[1]].matches[s[2]][1],
                                 sched[s[1]].matches[s[2]][2])
        later(s, u) == s[1] > u[1] \/ (s[1] = u[1] /\ s[2] >= u[2])
        lastOf(k) == CHOOSE s \in S : keyOf(s) = k /\
                         \A u \in S : keyOf(u) = k => later(s, u)
    IN  [k \in {keyOf(s) : s \in S} |->
            [a     |-> sched[lastOf(k)[1]].matches[lastOf(k)[2]][1],
             b     |-> sched[lastOf(k)[1]].matches[lastOf(k)[2]][2],
             round |-> sched[lastOf(k)[1]].round,
             ag    |-> "",
             bg    |-> ""]]

---------------------------------------------------------------------------
(* Persistence: saveState *)

\* JSON.stringify(s): the item is kept as the value it is the JSON text of;
\* the result state holds objects, texts and round numbers only, which
\* JSON.parse gives back as they were.
stringify(s) == [json |-> s]

\* saveState(s): localStorage.setItem(key, JSON.stringify(s)), as the value of
\* localStorage after it.  useEffect(() => { saveState(state) }, [state]) runs
\* it after every render with a new state.
saveState(s) == <<stringify(s)>>

---------------------------------------------------------------------------
(* Seeder: splitSnake, splitGroups *)

\* A faulty variant of withRank: the carried rank is kept.
keepRank(p, idx) == p

\* A faulty variant of withRank: the rank is written into p itself, and the
\* group holds the object of the ranking.
withRankInPlace(p, idx) == [p EXCEPT !.rank = idx + 1]

\* { ...p, rank: idx + 1 }: a new object with the name of p and the new
\* rank; it is not the object the ranking holds (it has no oid).
withRank(p, idx) == [name |-> p.name, rank |-> idx + 1]

\* A faulty variant of snakeToA: A and B alternate, whatever the pair.
snakeAlternate(idx) == idx % 2 = 0

\* splitSnake's branches: whether the entry at index idx is pushed to A.
snakeToA(idx) ==
    LET pair     == idx \div 2
        evenPair == pair % 2 = 0
    IN  IF evenPair THEN idx % 2 = 0 ELSE ~(idx % 2 = 0)

\* list.forEach((p, idx) => { ... }) of splitSnake
RECURSIVE snakeEach(_, _, _)
snakeEach(list, idx, acc) ==
    IF idx >= Len(list) THEN acc
    ELSE snakeEach(list, idx + 1,
            IF snakeToA(idx)
            THEN [acc EXCEPT !.A = Append(@, withRank(list[idx + 1], idx))]
            ELSE [acc EXCEPT !.B = Append(@, withRank(list[idx + 1], idx))])

splitSnake(list) == snakeEach(list, 0, [A |-> <<>>, B |-> <<>>])

\* A faulty variant of splitHalf: Math.floor for Math.ceil.
splitHalfFloor(list) == Len(list) \div 2

\* const half = Math.ceil(list.length / 2)
splitHalf(list) == (Len(list) + 1) \div 2

\* A faulty variant of firstHalf: <= for <.
firstHalfOffByOne(idx, h) == idx <= h

\* if (idx < half)
firstHalf(idx, h) == idx < h

\* list.forEach((p, idx) => { ... }) of splitGroups' else branch
RECURSIVE halfEach(_, _, _)
halfEach(list, idx, acc) ==
    IF idx >= Len(list) THEN acc
    ELSE halfEach(list, idx + 1,
            IF firstHalf(idx, splitHalf(list))
            THEN [acc EXCEPT !.A = Append(@, withRank(list[idx + 1], idx))]
            ELSE [acc EXCEPT !.B = Append(@, withRank(list[idx + 1], idx))])

\* A faulty variant of splitGroups: the test of the identifier is inverted.
splitGroupsInverted(list, algo) ==
    IF algo # "had" THEN splitSnake(list)
    ELSE halfEach(list, 0, [A |-> <<>>, B |-> <<>>])

\* splitGroups: 'had' is the snake split, anything else the split in halves.
splitGroups(list, algo) ==
    IF algo = "had" THEN splitSnake(list)
    ELSE halfEach(list, 0, [A |-> <<>>, B |-> <<>>])

---------------------------------------------------------------------------
(* Standings: calcStandings *)

\* The property names every plain object inherits from Object.prototype.
ObjectPrototypeKeys ==
    {"constructor", "hasOwnProperty", "isPrototypeOf", "propertyIsEnumerable",
     "toLocaleString", "toString", "valueOf", "__proto__", "__defineGetter__",
     "__defineSetter__", "__lookupGetter__", "__lookupSetter__"}

\* Number(text) for the score texts of the model: the empty text is 0, a
\* text that is no numeral ("x") is NaN.
Number(text) ==
    CASE text = ""  -> [finite |-> TRUE, val |-> 0]
      [] text = "0" -> [finite |-> TRUE, val |-> 0]
      [] text = "2" -> [finite |-> TRUE, val |-> 2]
      [] text = "4" -> [finite |-> TRUE, val |-> 4]
      [] OTHER      -> [finite |-> FALSE, val |-> 0]

\* A faulty variant of recorded: the empty text is not excluded, so it
\* counts as the score 0.
recordedEmptyAsZero(ag, bg) == Number(ag).finite /\ Number(bg).finite

\* Number.isFinite(agn) && Number.isFinite(bgn) && ag !== '' && bg !== ''
recorded(ag, bg) ==
    Number(ag).finite /\ Number(bg).finite /\ ag # "" /\ bg # ""

\* players.map(p => ({ name: p.name, rank: p.rank, W: 0, ... }))
blankTable(roster) ==
    [i \in 1..Len(roster) |->
        [name |-> roster[i].name, rank |-> roster[i].rank,
         W |-> 0, L |-> 0, GF |-> 0, GA |-> 0, GD |-> 0]]

\* index[a] for index = Object.fromEntries(table.map((r, i) => [r.name, i])):
\* the (last) row of that name, else what Object.prototype holds under that
\* name, else undefined.
index(table, a) ==
    IF \E i \in 1..Len(table) : table[i].name = a
    THEN [tag |-> "number",
          val |-> CHOOSE i \in 1..Len(table) :
                      table[i].name = a /\ \A j \in (i + 1)..Len(table) : table[j].name # a]
    ELSE IF a \in ObjectPrototypeKeys
         THEN [tag |-> "inherited", val |-> 0]
         ELSE [tag |-> "undefined", val |-> 0]

\* if (!m) return: a null entry of a loaded map.
isNull(m) == "a" \notin DOMAIN m

\* A faulty variant of aWins: a tie counts as a win of a.
aWinsOrTies(agn, bgn) == agn >= bgn

\* if (agn > bgn) { table[A].W++; table[B].L++ }
aWins(agn, bgn) == agn > bgn

\* else if (bgn > agn) { table[B].W++; table[A].L++ }
bWins(agn, bgn) == bgn > agn

\* A faulty variant of countLoss: the loss is not counted.
countLossNever(table, i) == table

\* table[B].L++, table[A].L++
countLoss(table, i) == [table EXCEPT ![i].L = @ + 1]

\* The body of the forEach callback for one record m, on the table so far;
\* table[A] for an inherited A is undefined, and reading its GF throws.
addResult(acc, m) ==
    IF acc.threw \/ isNull(m) THEN acc
    ELSE LET A == index(acc.table, m.a)
             B == index(acc.table, m.b)
             agn == Number(m.ag).val
             bgn == Number(m.bg).val
         IN  IF A.tag = "undefined" \/ B.tag = "undefined" THEN acc
             ELSE IF ~recorded(m.ag, m.bg) THEN acc
             ELSE IF A.tag # "number" \/ B.tag # "number"
                  THEN [acc EXCEPT !.threw = TRUE]
             ELSE LET t1 == [acc.table EXCEPT ![A.val].GF = @ + agn,
                                              ![A.val].GA = @ + bgn]
                      t2 == [t1 EXCEPT ![B.val].GF = @ + bgn,
                                       ![B.val].GA = @ + agn]
                      t3 == IF aWins(agn, bgn)
                            THEN countLoss([t2 EXCEPT ![A.val].W = @ + 1], B.val)
                            ELSE IF bWins(agn, bgn)
                            THEN countLoss([t2 EXCEPT ![B.val].W = @ + 1], A.val)
                            ELSE t2
                  IN  [acc EXCEPT !.table = t3]

\* Object.values(resultsForGroup).forEach(...): the sums do not depend on the
\* order of the records, and a throw in any record ends the call.
RECURSIVE forEachResult(_, _, _)
forEachResult(resultsForGroup, keys, acc) ==
    IF keys = {} THEN acc
    ELSE LET k == CHOOSE k \in keys : TRUE
         IN  forEachResult(resultsForGroup, keys \ {k},
                           addResult(acc, resultsForGroup[k]))

\* A faulty variant of withGD: the difference is taken the wrong way round.
withGDReversed(table) ==
    [i \in 1..Len(table) |-> [table[i] EXCEPT !.GD = table[i].GA - table[i].GF]]

\* table.forEach(r => r.GD = r.GF - r.GA)
withGD(table) == [i \in 1..Len(table) |-> [table[i] EXCEPT !.GD = table[i].GF - table[i].GA]]

\* A faulty variant of compare: the seed rank is consulted before GF.
compareRankBeforeGF(x, y) ==
    IF y.W - x.W # 0 THEN y.W - x.W
    ELSE IF y.GD - x.GD # 0 THEN y.GD - x.GD
    ELSE IF x.rank - y.rank # 0 THEN x.rank - y.rank
    ELSE y.GF - x.GF

\* y.W - x.W || y.GD - x.GD || y.GF - x.GF || x.rank - y.rank
compare(x, y) ==
    IF y.W - x.W # 0 THEN y.W - x.W
    ELSE IF y.GD - x.GD # 0 THEN y.GD - x.GD
    ELSE IF y.GF - x.GF # 0 THEN y.GF - x.GF
    ELSE x.rank - y.rank

\* table.sort(compare): the sort is stable, so a row goes behind every row
\* already placed that does not compare as greater.
RECURSIVE insertRow(_, _)
insertRow(sorted, x) ==
    IF sorted = <<>> THEN <<x>>
    ELSE IF compare(sorted[Len(sorted)], x) <= 0 THEN Append(sorted, x)
    ELSE Append(insertRow(SubSeq(sorted, 1, Len(sorted) - 1), x), sorted[Len(sorted)])

RECURSIVE sortTable(_, _)
sortTable(table, n) ==
    IF n = 0 THEN <<>> ELSE insertRow(sortTable(table, n - 1), table[n])

\* calcStandings: [threw |-> TRUE] stands for the TypeError, otherwise table
\* is the returned table.
calcStandings(roster, resultsForGroup) ==
    LET summed == forEachResult(resultsForGroup, DOMAIN resultsForGroup,
                                [threw |-> FALSE, table |-> blankTable(roster)])
    IN  IF summed.threw THEN [threw |-> TRUE, table |-> <<>>]
        ELSE [threw |-> FALSE,
              table |-> sortTable(withGD(summed.table), Len(summed.table))]

---------------------------------------------------------------------------
(* Playoff bracket *)

\* standingsA.slice(0, 4): how many rows advance from a group.
Top == 4

\* standings.slice(0, 4).map(r => r.name)
top4(standings) ==
    [i \in 1..(IF Len(standings) < Top THEN Len(standings) ELSE Top) |->
        standings[i].name]

\* The truth value of a text: only the empty text is false.
truthy(text) == text # ""

\* top4[i] || placeholder, for a 0-based i: an index past the end reads
\* undefined.
orElse(top, i, placeholder) ==
    IF i < Len(top) /\ truthy(top[i + 1]) THEN top[i + 1] ELSE placeholder

\* The labels: the first letter of the source's labels carries a caron,
\* which is left out here.
\* const bracket = [ { label, a: top4A[0] || '1A', b: top4B[3] || '4B' }, ... ]
composeBracket(top4A, top4B) ==
    <<[label |-> "CF1", a |-> orElse(top4A, 0, "1A"),
                        b |-> orElse(top4B, 3, "4B")],
      [label |-> "CF2", a |-> orElse(top4A, 1, "2A"),
                        b |-> orElse(top4B, 2, "3B")],
      [label |-> "CF3", a |-> orElse(top4B, 0, "1B"),
                        b |-> orElse(top4A, 3, "4A")],
      [label |-> "CF4", a |-> orElse(top4B, 1, "2B"),
                        b |-> orElse(top4A, 2, "3A")]>>

---------------------------------------------------------------------------
(* Idle values of the components a specification does not exercise *)

ScheduleIdle == teams = <<>> /\ schedule = <<>> /\ pc = "idle"

SeedIdle ==
    /\ ranking = <<>>
    /\ seedingAlgo = "had"
    /\ seededWith = "idle"
    /\ selectChanged = FALSE

GroupsIdle == playersA = <<>> /\ playersB = <<>>

ResultsIdle == state = [A |-> <<>>, B |-> <<>>]

BracketIdle == bracket = <<>>

EditingIdle == auth = FALSE /\ password = "" /\ edits = 0 /\ discarded = 0

ImportIdle == readerResult = "" /\ alerted = ""

DragIdle == draggedIndex = <<>>

\* The effect has saved the state of the last render.
Persisted == localStorage = saveState(state)

---------------------------------------------------------------------------
(* SpecSchedule: roundRobin over every bounded list of teams *)

InitSchedule ==
    /\ teams \in TeamInputs
    /\ schedule = <<>>
    /\ pc = "input"
    /\ SeedIdle
    /\ GroupsIdle
    /\ ResultsIdle
    /\ BracketIdle
    /\ EditingIdle
    /\ ImportIdle
    /\ DragIdle
    /\ Persisted

RunRoundRobin ==
    /\ pc = "input"
    /\ schedule' = roundRobin(teams)
    /\ pc' = "done"
    /\ UNCHANGED <<teams, ranking, seedingAlgo, playersA, playersB,
                   state, bracket, auth, password, edits, discarded, seededWith,
                   selectChanged,
                   readerResult, alerted, draggedIndex,
                   localStorage>>

NextSchedule == RunRoundRobin

SpecSchedule == InitSchedule /\ [][NextSchedule]_vars

---------------------------------------------------------------------------
(* Claims about the scheduler *)

PairingAt(sched, s) == sched[s[1]].matches[s[2]]

\* How many pairings of round r hold competitor x.
Appearances(sched, r, x) ==
    Cardinality({i \in 1..Len(sched[r].matches) :
                   x \in {sched[r].matches[i][1], sched[r].matches[i][2]}})

\* The working list of the circle method at the start of round r (1-based).
RECURSIVE workingList(_, _)
workingList(list, r) ==
    IF r = 1 THEN withBye(list) ELSE rotate(workingList(list, r - 1))

\* Whether the working list pairs competitor x with the bye placeholder.
PairedWithBye(t, x) ==
    \E i \in 1..half(Len(t)) :
        \/ t[i].name = x /\ ~isBye(t[i]) /\ isBye(t[Len(t) + 1 - i])
        \/ t[Len(t) + 1 - i].name = x /\ ~isBye(t[Len(t) + 1 - i]) /\ isBye(t[i])

\* C1: for every list of N >= 0 competitors with distinct names, every
\* unordered pair of distinct competitors appears in exactly one pairing of
\* the schedule, the schedule has N*(N-1)/2 pairings in all, and no pairing
\* names the bye placeholder VOLNO.
C1_RoundRobinComplete ==
    pc = "done" =>
        LET N == Len(teams)
            S == Slots(schedule)
        IN  /\ \A x, y \in NameSet(teams) :
                x # y =>
                    Cardinality({s \in S : PairingAt(schedule, s) \in {<<x, y>>, <<y, x>>}}) = 1
            /\ Cardinality(S) = (N * (N - 1)) \div 2
            /\ \A s \in S : "VOLNO" \notin {PairingAt(schedule, s)[1], PairingAt(schedule, s)[2]}

\* A schedule of five competitors (a bye in every round) with its ten pairings.
C1_Witness ==
    pc = "done" /\ Len(teams) = 5 /\ Cardinality(Slots(schedule)) = 10

\* C2: for odd N every competitor is absent from the pairings of exactly one
\* round, the round in which the circle method pairs it with the bye
\* placeholder, and is in exactly one pairing of every other round.
C2_ByeOncePerCompetitor ==
    (pc = "done" /\ Len(teams) % 2 = 1) =>
        \A x \in NameSet(teams) :
            /\ Cardinality({r \in 1..Len(schedule) : Appearances(schedule, r, x) = 0}) = 1
            /\ \A r \in 1..Len(schedule) :
                   /\ Appearances(schedule, r, x) =
                          (IF PairedWithBye(workingList(teams, r), x) THEN 0 ELSE 1)

\* A schedule of an odd list of at least three competitors.
C2_Witness ==
    /\ pc = "done"
    /\ Len(teams) = 3
    /\ \E r \in 1..Len(schedule) : Appearances(schedule, r, teams[1].name) = 0
    /\ \E r \in 1..Len(schedule) : Appearances(schedule, r, teams[1].name) = 1

\* The least number of rounds in which N competitors, at most N div 2
\* pairings to a round, can play N*(N-1)/2 pairings.
MinRounds(N) ==
    CHOOSE R \in 0..N :
        /\ R * (N \div 2) >= (N * (N - 1)) \div 2
        /\ \A Q \in 0..(R - 1) : Q * (N \div 2) < (N * (N - 1)) \div 2

\* C3: for N >= 2 the schedule has exactly M-1 rounds, M being N rounded up
\* to the next even number, which is the minimum for a single round-robin,
\* and the rounds are numbered 1..M-1 in the order they are emitted.
C3_RoundCount ==
    (pc = "done" /\ Len(teams) >= 2) =>
        LET N == Len(teams)
            M == N + (N % 2)
        IN  /\ Len(schedule) = M - 1
            /\ M - 1 = MinRounds(N)
            /\ \A r \in 1..Len(schedule) : schedule[r].round = r

\* The three rounds of a list of four and the five rounds of a list of five.
C3_Witness ==
    pc = "done" /\ Len(teams) = 4 /\ Len(schedule) = 3 /\ schedule[3].round = 3

\* C29: in every round of the schedule no competitor is in more than one
\* pairing and no competitor is paired with itself; for even N every round
\* has exactly N/2 pairings and for odd N exactly (N-1)/2.
C29_RoundsArePartialMatchings ==
    pc = "done" =>
        \A r \in 1..Len(schedule) :
            /\ \A x \in NameSet(teams) : Appearances(schedule, r, x) <= 1
            /\ \A i \in 1..Len(schedule[r].matches) :
                   schedule[r].matches[i][1] # schedule[r].matches[i][2]
            /\ Len(schedule[r].matches) =
                   (IF Len(teams) % 2 = 0 THEN Len(teams) \div 2
                                          ELSE (Len(teams) - 1) \div 2)

\* A schedule of five, a bye in every round: five rounds of two pairings.
C29_Witness ==
    /\ pc = "done"
    /\ Len(teams) = 5
    /\ Len(schedule) = 5
    /\ \A r \in 1..Len(schedule) : Len(schedule[r].matches) = 2

---------------------------------------------------------------------------
(* SpecResults: emptyResults over the schedule of every bounded list *)

\* Distinct names as the name input of the ranking editor accepts them,
\* with underscores at their ends.
UnderscoreNames == {"x", "_y", "x_", "y"}

\* The lists of TeamInputs, and every order of the names with underscores.
ResultsInputs ==
    TeamInputs \cup
    {AsCompetitors(ns) : ns \in Injections(UnderscoreNames, Cardinality(UnderscoreNames))}

InitResults ==
    /\ teams \in ResultsInputs
    /\ schedule = <<>>
    /\ pc = "input"
    /\ SeedIdle
    /\ GroupsIdle
    /\ ResultsIdle
    /\ BracketIdle
    /\ EditingIdle
    /\ ImportIdle
    /\ DragIdle
    /\ Persisted

\* const schedA = roundRobin(A); ... emptyResults(schedA, 'A'), and the same
\* list as group B.
MakeEmptyResults ==
    /\ pc = "input"
    /\ schedule' = roundRobin(teams)
    /\ state' = [A |-> emptyResults(schedule', "A"), B |-> emptyResults(schedule', "B")]
    /\ pc' = "done"
    /\ UNCHANGED <<teams, ranking, seedingAlgo, playersA, playersB,
                   bracket, auth, password, edits, discarded, seededWith,
                   selectChanged, readerResult, alerted, draggedIndex>>
    /\ localStorage' = saveState(state')

NextResults == MakeEmptyResults

SpecResults == InitResults /\ [][NextResults]_vars

---------------------------------------------------------------------------
(* Claims about the result records *)

\* The identifier of the pairing at place s of the schedule.
KeyAt(group, s) ==
    idFor(group, PairingAt(schedule, s)[1], PairingAt(schedule, s)[2])

\* One record per pairing under the pairing's identifier, with the
\* pairing's names and round and empty scores, and no identifier shared.
OneRecordPerPairing(group) ==
    \A S \in {Slots(schedule)} :
        /\ Cardinality(DOMAIN state[group]) = (Len(teams) * (Len(teams) - 1)) \div 2
        /\ DOMAIN state[group] = {KeyAt(group, s) : s \in S}
        /\ \A s \in S :
               /\ KeyAt(group, s) \in DOMAIN state[group]
               /\ state[group][KeyAt(group, s)] =
                      [a     |-> PairingAt(schedule, s)[1],
                       b     |-> PairingAt(schedule, s)[2],
                       round |-> schedule[s[1]].round,
                       ag    |-> "",
                       bg    |-> ""]
        /\ \A s, u \in S : s # u => KeyAt(group, s) # KeyAt(group, u)

\* C26: for every schedule of a group with distinct competitor names,
\* emptyResults returns exactly one record per scheduled pairing,
\* N*(N-1)/2 records, stored under "<group>::<nameA>__<nameB>" built from the
\* pairing's names in schedule order, with a and b equal to those names,
\* round equal to the pairing's round number and both score fields empty;
\* distinct pairings never share an identifier.
C26_OneRecordPerPairing ==
    pc = "done" => (OneRecordPerPairing("A") /\ OneRecordPerPairing("B"))

\* The same for the lists whose names hold no underscore.
OneRecordPerPairingPlainNames ==
    (pc = "done" /\ teams \in TeamInputs) =>
        (OneRecordPerPairing("A") /\ OneRecordPerPairing("B"))

\* The ten records of a list of five plain names.
PlainNamesWitness ==
    pc = "done" /\ Len(teams) = 5 /\ Cardinality(DOMAIN state.A) = 10

---------------------------------------------------------------------------
(* SpecSeed: the seeding controls over every bounded ranking *)

\* useState('had'); useState(() => splitSnake(ranking)); the schedules and
\* the empty result maps derived from the groups.  The ranking ranges over the
\* lists splitSnake and splitGroups may be handed: its entries carry
\* arbitrary ranks.
InitSeed ==
    /\ ranking \in RankingInputs
    /\ seedingAlgo = "had"
    /\ playersA = splitSnake(ranking).A
    /\ playersB = splitSnake(ranking).B
    /\ state = [A |-> emptyResults(roundRobin(playersA), "A"),
                B |-> emptyResults(roundRobin(playersB), "B")]
    /\ seededWith = "default"
    /\ selectChanged = FALSE
    /\ ScheduleIdle
    /\ BracketIdle
    /\ EditingIdle
    /\ ImportIdle
    /\ DragIdle
    /\ Persisted

\* onChange={(e) => setSeedingAlgo(e.target.value)}
SetSeedingAlgo(v) ==
    /\ seedingAlgo' = v
    /\ selectChanged' = TRUE
    /\ UNCHANGED <<teams, schedule, pc, ranking, playersA, playersB, state,
                   bracket, auth, password, edits, discarded, seededWith,
                   readerResult, alerted, draggedIndex,
                   localStorage>>

\* The number of score fields of both result maps that hold a text.
ScoreTextsHeld ==
    Cardinality({<<g, k, f>> \in {"A", "B"} \X (DOMAIN state.A \cup DOMAIN state.B) \X {"ag", "bg"} :
                    k \in DOMAIN state[g] /\ state[g][k][f] # ""})

\* A faulty variant of applySeeding: the records of the pairings that were
\* scheduled before keep their scores.
ApplySeedingKeepingScores ==
    LET g      == splitGroups(ranking, seedingAlgo)
        newA   == emptyResults(roundRobin(g.A), "A")
        newB   == emptyResults(roundRobin(g.B), "B")
    IN  /\ UNCHANGED <<teams, schedule, pc, ranking, seedingAlgo, bracket,
                       auth, password, edits, selectChanged,
                   readerResult, alerted, draggedIndex>>
        /\ seededWith' = seedingAlgo
        /\ discarded' = ScoreTextsHeld
        /\ playersA' = g.A
        /\ playersB' = g.B
        /\ state' = [A |-> [k \in DOMAIN newA |->
                               IF k \in DOMAIN state.A THEN state.A[k] ELSE newA[k]],
                     B |-> [k \in DOMAIN newB |->
                               IF k \in DOMAIN state.B THEN state.B[k] ELSE newB[k]]]
        /\ localStorage' = saveState(state')

\* applySeeding
ApplySeeding ==
    LET g      == splitGroups(ranking, seedingAlgo)
        schedA == roundRobin(g.A)
        schedB == roundRobin(g.B)
    IN  /\ UNCHANGED <<teams, schedule, pc, ranking, seedingAlgo, bracket,
                       auth, password, edits, selectChanged,
                   readerResult, alerted, draggedIndex>>
        /\ seededWith' = seedingAlgo
        /\ discarded' = ScoreTextsHeld
        /\ playersA' = g.A
        /\ playersB' = g.B
        /\ state' = [A |-> emptyResults(schedA, "A"), B |-> emptyResults(schedB, "B")]
        /\ localStorage' = saveState(state')

NextSeed ==
    \/ \E v \in AlgoIdentifiers : SetSeedingAlgo(v)
    \/ ApplySeeding

SpecSeed == InitSeed /\ [][NextSeed]_vars

---------------------------------------------------------------------------
(* Claims about the seeder *)

NamesOf(list) == [i \in 1..Len(list) |-> list[i].name]

\* The 1-based position of a name in a list of distinct names.
Pos(list, nm) == CHOOSE i \in 1..Len(list) : list[i].name = nm

Abs(x) == IF x < 0 THEN -x ELSE x

\* The snake rule of the description, on a 0-based position.
SnakeRule(i) ==
    \/ (i \div 2) % 2 = 0 /\ i % 2 = 0
    \/ (i \div 2) % 2 = 1 /\ i % 2 = 1

\* ceil(N / 2), from its definition.
CeilHalf(N) == CHOOSE h \in 0..N : 2 * h >= N /\ 2 * (h - 1) < N

\* The names of a list at the 0-based positions satisfying keep, in order.
Picked(list, keep(_)) ==
    LET idxs == SelectSeq([i \in 1..Len(list) |-> i - 1], keep)
    IN  [j \in 1..Len(idxs) |-> list[idxs[j] + 1].name]

InLowerHalf(i) == i < CeilHalf(Len(ranking))

InUpperHalf(i) == ~InLowerHalf(i)

NotSnakeRule(i) == ~SnakeRule(i)

IsSnakeSplit ==
    /\ NamesOf(playersA) = Picked(ranking, SnakeRule)
    /\ NamesOf(playersB) = Picked(ranking, NotSnakeRule)

IsHalfSplit ==
    /\ NamesOf(playersA) = Picked(ranking, InLowerHalf)
    /\ NamesOf(playersB) = Picked(ranking, InUpperHalf)

\* C4: for every ranking of N >= 0 distinct names and both policies, the two
\* groups are disjoint, together hold exactly the competitors of the ranking
\* (none dropped, none duplicated) and differ in size by at most one.
C4_SeederPartition ==
    seededWith # "idle" =>
        /\ NameSet(playersA) \cap NameSet(playersB) = {}
        /\ NameSet(playersA) \cup NameSet(playersB) = NameSet(ranking)
        /\ Len(playersA) + Len(playersB) = Len(ranking)
        /\ Cardinality(NameSet(playersA)) = Len(playersA)
        /\ Cardinality(NameSet(playersB)) = Len(playersB)
        /\ Abs(Len(playersA) - Len(playersB)) <= 1

\* A split-half split of five and a snake split of six have been applied.
C4_Witness ==
    \/ seededWith = "prumer" /\ Len(ranking) = 5 /\ Len(playersA) = 3 /\ Len(playersB) = 2
    \/ seededWith = "had" /\ Len(ranking) = 6 /\ Len(playersA) = 3 /\ Len(playersB) = 3

\* C5: under the snake policy the competitor at 0-based position i is in
\* group A exactly when (floor(i/2) is even and i is even) or (floor(i/2) is
\* odd and i is odd), in group B otherwise, and each group keeps the
\* relative order of the ranking.
C5_SnakePlacement ==
    seededWith \in {"default", "had"} =>
        /\ \A i \in 0..(Len(ranking) - 1) :
               /\ (ranking[i + 1].name \in NameSet(playersA)) <=> SnakeRule(i)
               /\ (ranking[i + 1].name \in NameSet(playersB)) <=> ~SnakeRule(i)
        /\ \A j, k \in 1..Len(playersA) :
               j < k => Pos(ranking, playersA[j].name) < Pos(ranking, playersA[k].name)
        /\ \A j, k \in 1..Len(playersB) :
               j < k => Pos(ranking, playersB[j].name) < Pos(ranking, playersB[k].name)

\* The snake split of six was applied from the select: A holds positions
\* 0, 3, 4 and B holds positions 1, 2, 5.
C5_Witness ==
    /\ seededWith = "had"
    /\ selectChanged
    /\ Len(ranking) = 6
    /\ NamesOf(playersA) = <<ranking[1].name, ranking[4].name, ranking[5].name>>
    /\ NamesOf(playersB) = <<ranking[2].name, ranking[3].name, ranking[6].name>>

\* C6: under the split-half policy group A is the first ceil(N/2) competitors
\* of the ranking in ranking order and group B the remaining ones in ranking
\* order, for every N >= 0.
C6_SplitHalfPlacement ==
    seededWith = "prumer" =>
        LET N == Len(ranking)
            h == CeilHalf(N)
        IN  /\ NamesOf(playersA) = NamesOf(SubSeq(ranking, 1, h))
            /\ NamesOf(playersB) = NamesOf(SubSeq(ranking, h + 1, N))

\* The split-half split of five: three in A, two in B.
C6_Witness ==
    /\ seededWith = "prumer"
    /\ Len(ranking) = 5
    /\ NamesOf(playersA) = <<ranking[1].name, ranking[2].name, ranking[3].name>>
    /\ NamesOf(playersB) = <<ranking[4].name, ranking[5].name>>

C8_RankIsPosition ==
    seededWith # "idle" =>
        LET all == playersA \o playersB
        IN  /\ \A i \in 1..Len(all) : all[i].rank = Pos(ranking, all[i].name)
            /\ \A i, j \in 1..Len(all) : i # j => all[i].rank # all[j].rank

\* A split of a ranking whose entries all carried rank 99.
C8_Witness ==
    /\ seededWith \in {"had", "prumer"}
    /\ Len(ranking) = 4
    /\ \A i \in 1..4 : ranking[i].rank = 99
    /\ {playersA[i].rank : i \in 1..Len(playersA)} \cup
       {playersB[i].rank : i \in 1..Len(playersB)} = 1..4

\* The sum of the seed positions of a group.
RECURSIVE SeedSum(_, _)
SeedSum(list, g) ==
    IF g = <<>> THEN 0 ELSE Pos(list, Head(g).name) + SeedSum(list, Tail(g))

SeedGap(list, A, B) == Abs(SeedSum(list, A) - SeedSum(list, B))

HalfSplitGap ==
    SeedGap(ranking, splitGroups(ranking, "prumer").A, splitGroups(ranking, "prumer").B)

\* C9, as claimed: for every ranking of even size 2k, k >= 1, the gap between
\* the seed sums of the groups is strictly smaller under the snake split than
\* under the split-half split.
C9_Original ==
    (seededWith \in {"default", "had"} /\ Len(ranking) % 2 = 0 /\ Len(ranking) >= 2) =>
        SeedGap(ranking, playersA, playersB) < HalfSplitGap

\* C9, amended: the gap is strictly smaller under the snake split for every
\* even size 2k with k >= 2; for k = 1 the two splits are the same split and
\* the gaps are equal.
C9_SnakeBalance ==
    (seededWith \in {"default", "had"} /\ Len(ranking) % 2 = 0) =>
        /\ Len(ranking) >= 4 => SeedGap(ranking, playersA, playersB) < HalfSplitGap
        /\ Len(ranking) = 2 => SeedGap(ranking, playersA, playersB) = HalfSplitGap
        /\ Len(ranking) = 2 => splitGroups(ranking, "prumer") = [A |-> playersA, B |-> playersB]

\* The snake split of six: seed sums 10 and 11, against 6 and 15.
C9_Witness ==
    /\ seededWith = "had"
    /\ Len(ranking) = 6
    /\ SeedGap(ranking, playersA, playersB) = 1
    /\ HalfSplitGap = 9

---------------------------------------------------------------------------
(* SpecStandings: calcStandings over a roster and its result map *)

\* A record left in the stored map by an earlier seeding: both scores set,
\* between a competitor that is in no roster and the first competitor of the
\* roster, in either order.
LoadedRecords(roster) ==
    LET known == IF roster = <<>> THEN {} ELSE {roster[1].name}
    IN  {[a |-> x, b |-> y, round |-> 1, ag |-> "4", bg |-> "2"] :
            x \in StaleNames, y \in known}
        \cup
        {[a |-> y, b |-> x, round |-> 1, ag |-> "4", bg |-> "2"] :
            x \in StaleNames, y \in known}

\* The map with the entry key |-> rec added.
WithEntry(map, key, rec) ==
    [k \in DOMAIN map \cup {key} |-> IF k = key THEN rec ELSE map[k]]

\* The score texts a match holds in a map saved by an earlier session:
\* nothing, a win of a, a tie, and one score only.
SavedScores == {<<"", "">>, <<"4", "2">>, <<"2", "2">>, <<"4", "">>}

\* The maps an earlier session saved for the schedule of base.
SavedResults(base) ==
    {[k \in DOMAIN base |-> [base[k] EXCEPT !.ag = c[k][1], !.bg = c[k][2]]] :
        c \in [DOMAIN base -> SavedScores]}

\* loadState() || emptyResults(schedule, group): the empty results of the
\* schedule; or the results an earlier session saved for it; or the empty
\* results with one record of an earlier seeding left over.
StartResults(roster, group) ==
    LET base == emptyResults(roundRobin(roster), group)
    IN  SavedResults(base) \cup
        {WithEntry(base, idFor(group, m.a, m.b), m) : m \in LoadedRecords(roster)}

\* useMemo(() => calcStandings(playersA, state.A), ...)
standingsA == calcStandings(playersA, state.A)

standingsB == calcStandings(playersB, state.B)

playersOf(group) == IF group = "A" THEN playersA ELSE playersB

\* The identifiers the schedule view builds for the pairings of a group.
ScheduleKeys(group) ==
    LET sched == roundRobin(playersOf(group))
    IN  {idFor(group, PairingAt(sched, sl)[1], PairingAt(sched, sl)[2]) : sl \in Slots(sched)}

\* The component rendered: both standings were computed and every pairing of
\* both schedules found its record (rec.ag, rec.bg).
Rendered ==
    /\ ~standingsA.threw
    /\ ~standingsB.threw
    /\ ScheduleKeys("A") \subseteq DOMAIN state.A
    /\ ScheduleKeys("B") \subseteq DOMAIN state.B

\* The score inputs and clear buttons on the page: those of the pairings of
\* the group's schedule, once the component has rendered.
ScoreInputs(group) == IF Rendered THEN ScheduleKeys(group) ELSE {}

\* The number of score fields under the given keys that hold a text.
Filled(map, keys) ==
    Cardinality({<<k, f>> \in keys \X {"ag", "bg"} : map[k][f] # ""})

InitStandings ==
    /\ playersA \in RosterInputs
    /\ playersB = <<>>
    /\ state \in {[A |-> m, B |-> emptyResults(roundRobin(<<>>), "B")] :
                     m \in StartResults(playersA, "A")}
    /\ SeedIdle
    /\ ScheduleIdle
    /\ BracketIdle
    /\ EditingIdle
    /\ ImportIdle
    /\ DragIdle
    /\ Persisted

\* updateScore(group, key, field, value)
UpdateScore(group, key, field, value) ==
    /\ state' = [state EXCEPT ![group][key][field] = value]
    /\ UNCHANGED <<teams, schedule, pc, ranking, seedingAlgo, playersA,
                   playersB, bracket, auth, password, edits, discarded, seededWith,
                   selectChanged,
                   readerResult, alerted, draggedIndex>>
    /\ localStorage' = saveState(state')

\* A faulty variant of clearMatch: the score of b stays.
ClearMatchFirstScore(group, key) ==
    /\ state' = [state EXCEPT ![group][key].ag = ""]
    /\ UNCHANGED <<teams, schedule, pc, ranking, seedingAlgo, playersA,
                   playersB, bracket, auth, password, edits, discarded, seededWith,
                   selectChanged, readerResult, alerted, draggedIndex>>
    /\ localStorage' = saveState(state')

\* clearMatch(group, key)
ClearMatch(group, key) ==
    /\ state' = [state EXCEPT ![group][key].ag = "", ![group][key].bg = ""]
    /\ UNCHANGED <<teams, schedule, pc, ranking, seedingAlgo, playersA,
                   playersB, bracket, auth, password, edits, discarded, seededWith,
                   selectChanged,
                   readerResult, alerted, draggedIndex>>
    /\ localStorage' = saveState(state')

\* The handlers are called from the score inputs and clear buttons of the
\* page; a score is typed only while it leaves at most MaxFilled score fields
\* of the group holding a text.
NextStandings ==
    \/ \E group \in {"A", "B"} : \E inputs \in {ScoreInputs(group)} :
           \E key \in inputs, field \in {"ag", "bg"}, value \in ScoreTexts :
               /\ UpdateScore(group, key, field, value)
               /\ Filled(state'[group], inputs) <= MaxFilled
    \/ \E group \in {"A", "B"} : \E inputs \in {ScoreInputs(group)} :
           \E key \in inputs : ClearMatch(group, key)

SpecStandings == InitStandings /\ [][NextStandings]_vars

---------------------------------------------------------------------------
(* Claims about the standings *)

RowNames(table) == {table[i].name : i \in 1..Len(table)}

IsBlankRow(r) == r.W = 0 /\ r.L = 0 /\ r.GF = 0 /\ r.GA = 0 /\ r.GD = 0

\* No record of the map holds two scores that count.
NothingRecorded(map) ==
    \A k \in DOMAIN map : isNull(map[k]) \/ ~recorded(map[k].ag, map[k].bg)

\* A record names a competitor that is in no roster but is a property name
\* of Object.prototype.
NamesInherited(roster, map) ==
    \E k \in DOMAIN map :
        /\ ~isNull(map[k])
        /\ {map[k].a, map[k].b} \cap (ObjectPrototypeKeys \ NameSet(roster)) # {}

\* C10: for every roster with distinct names and every result map,
\* calcStandings returns exactly one row per roster competitor (the same set
\* of names, the same length), and when no result is recorded every row has
\* W = L = GF = GA = GD = 0.
C10_OneRowPerCompetitor ==
    /\ ~standingsA.threw
    /\ Len(standingsA.table) = Len(playersA)
    /\ RowNames(standingsA.table) = NameSet(playersA)
    /\ NothingRecorded(state.A) =>
           \A i \in 1..Len(standingsA.table) : IsBlankRow(standingsA.table[i])

\* What does hold of the code: the statement of C10 for the result maps none
\* of whose records names an inherited property of Object.prototype.
StandingsRowsUnlessInherited ==
    ~NamesInherited(playersA, state.A) => C10_OneRowPerCompetitor

\* The row of a table under a name.
RowOf(table, nm) == table[CHOOSE i \in 1..Len(table) : table[i].name = nm]

\* The map without the record under key k.
Without(map, k) == [j \in DOMAIN map \ {k} |-> map[j]]

\* A score text that is a numeral, and the number it denotes.
IsNumeral(text) == text \in {"0", "2", "4"}

Value(text) == CASE text = "0" -> 0 [] text = "2" -> 2 [] text = "4" -> 4

\* A record with a score for both competitors.
IsRecorded(m) == IsNumeral(m.ag) /\ IsNumeral(m.bg)

\* The keys of the recorded matches of a competitor.
MatchesOf(map, nm) ==
    {k \in DOMAIN map : IsRecorded(map[k]) /\ nm \in {map[k].a, map[k].b}}

OwnScore(m, nm) == IF m.a = nm THEN Value(m.ag) ELSE Value(m.bg)

OppScore(m, nm) == IF m.a = nm THEN Value(m.bg) ELSE Value(m.ag)

\* The sum of the values of a function over a set of its arguments.
RECURSIVE SumFn(_, _)
SumFn(f, S) ==
    IF S = {} THEN 0
    ELSE LET k == CHOOSE k \in S : TRUE IN f[k] + SumFn(f, S \ {k})

\* Every record of the map is between two competitors of the roster.
ReferencesRoster(roster, map) ==
    \A k \in DOMAIN map : {map[k].a, map[k].b} \subseteq NameSet(roster)

\* C11: for every roster and every result map whose records reference roster
\* competitors, each row has GF the sum of the competitor's own scores over
\* its recorded matches, GA the sum of its opponents' scores over them, W the
\* number of them in which its score is strictly higher, L the number in
\* which it is strictly lower, and GD = GF - GA.
C11_RowsAreSums ==
    ReferencesRoster(playersA, state.A) =>
        \A std \in {standingsA} :
        /\ ~std.threw
        /\ \A r \in {std.table[i] : i \in 1..Len(std.table)} :
               LET M == MatchesOf(state.A, r.name)
               IN  /\ r.GF = SumFn([k \in M |-> OwnScore(state.A[k], r.name)], M)
                   /\ r.GA = SumFn([k \in M |-> OppScore(state.A[k], r.name)], M)
                   /\ r.W = Cardinality({k \in M : OwnScore(state.A[k], r.name) >
                                                   OppScore(state.A[k], r.name)})
                   /\ r.L = Cardinality({k \in M : OwnScore(state.A[k], r.name) <
                                                   OppScore(state.A[k], r.name)})
                   /\ r.GD = r.GF - r.GA

\* Three competitors, all three matches recorded: one of them won both of
\* its matches 4:2, and another lost one 2:4 and tied one 2:2.
C11_Witness ==
    /\ Len(playersA) = 3
    /\ \A k \in DOMAIN state.A : IsRecorded(state.A[k])
    /\ ~standingsA.threw
    /\ \E i \in 1..3 :
           LET r == standingsA.table[i]
           IN  r.W = 2 /\ r.L = 0 /\ r.GF = 8 /\ r.GA = 4 /\ r.GD = 4
    /\ \E i \in 1..3 :
           LET r == standingsA.table[i]
           IN  r.W = 0 /\ r.L = 1 /\ r.GF = 4 /\ r.GA = 6 /\ r.GD = -2

\* The recorded ties of the map between two competitors of the roster.
Ties(roster, map) ==
    {k \in DOMAIN map :
        /\ IsRecorded(map[k])
        /\ Value(map[k].ag) = Value(map[k].bg)
        /\ {map[k].a, map[k].b} \subseteq NameSet(roster)}

\* C12: a recorded match with equal scores increments neither W nor L of
\* either competitor, while its scores are still added to GF and GA of both
\* competitors: against the table computed without the match, W and L of
\* every row are the same, and GF and GA of both competitors are larger by
\* the score.
C12_TieCountsGamesOnly ==
    \A k \in Ties(playersA, state.A) :
        \A with \in {standingsA}, wout \in {calcStandings(playersA, Without(state.A, k))} :
            ~with.threw =>
                \A nm \in NameSet(playersA) :
                    \A x \in {RowOf(with.table, nm)}, y \in {RowOf(wout.table, nm)} :
                        LET d == IF nm \in {state.A[k].a, state.A[k].b}
                                 THEN Value(state.A[k].ag) ELSE 0
                        IN  /\ x.W = y.W
                            /\ x.L = y.L
                            /\ x.GF = y.GF + d
                            /\ x.GA = y.GA + d

\* A 2:2 tie is the only recorded match: both competitors have W = L = 0 and
\* GF = GA = 2.
C12_Witness ==
    /\ ~standingsA.threw
    /\ \E k \in Ties(playersA, state.A) :
           /\ state.A[k].ag = "2"
           /\ \A nm \in {state.A[k].a, state.A[k].b} :
                  LET r == RowOf(standingsA.table, nm)
                  IN  r.W = 0 /\ r.L = 0 /\ r.GF = 2 /\ r.GA = 2

\* C13: a record in which at least one score field is empty or no finite
\* number contributes nothing to any row, also when the other field holds a
\* number: after any sequence of updateScore and clearMatch the standings
\* are those computed without that record.
C13_HalfEnteredIgnored ==
    \A std \in {standingsA} :
        \A k \in DOMAIN state.A :
            ~IsRecorded(state.A[k]) =>
                calcStandings(playersA, Without(state.A, k)) = std

\* One match is recorded and shows in the table, and another holds a number
\* in one field while its other field is empty or no number.
C13_Witness ==
    /\ ~standingsA.threw
    /\ \E i \in 1..Len(standingsA.table) : standingsA.table[i].W = 1
    /\ \E k \in DOMAIN state.A : state.A[k].ag = "4" /\ state.A[k].bg \in {"", "x"}

\* The keys of the records that name a competitor not in the roster.
StaleKeys(roster, map) ==
    {k \in DOMAIN map :
        ~isNull(map[k]) /\ ~({map[k].a, map[k].b} \subseteq NameSet(roster))}

\* C14: for every roster and every result map, a record whose competitor
\* name a or b is not in the roster is skipped: no error is raised and the
\* returned table equals the table computed from the map with that record
\* removed, even when the record holds two valid scores.
C14_StaleSkipped ==
    \A k \in StaleKeys(playersA, state.A) :
        /\ ~standingsA.threw
        /\ standingsA = calcStandings(playersA, Without(state.A, k))

\* What does hold of the code: the statement of C14 for the stale records
\* none of whose names is an inherited property of Object.prototype.
StaleSkippedUnlessInherited ==
    ~NamesInherited(playersA, state.A) => C14_StaleSkipped

\* The ranks of a roster are pairwise distinct, as a seeding operation
\* leaves them.
DistinctRanks(roster) ==
    \A i, j \in 1..Len(roster) : i # j => roster[i].rank # roster[j].rank

\* The key chain: x is strictly before y by W descending, then GD descending,
\* then GF descending, then seed rank ascending.
Before(x, y) ==
    \/ x.W > y.W
    \/ x.W = y.W /\ x.GD > y.GD
    \/ x.W = y.W /\ x.GD = y.GD /\ x.GF > y.GF
    \/ x.W = y.W /\ x.GD = y.GD /\ x.GF = y.GF /\ x.rank < y.rank

\* C15: the table is strictly ordered by the key chain W descending, GD
\* descending, GF descending, seed rank ascending: every row is strictly
\* before every later row, so GF outranks the seed rank, and no two rows of a
\* group with the distinct ranks of a seeding operation compare as equal.
C15_StrictKeyChain ==
    DistinctRanks(playersA) =>
        \A std \in {standingsA} :
            ~std.threw =>
                \A i, j \in 1..Len(std.table) :
                    i < j => /\ Before(std.table[i], std.table[j])
                             /\ compare(std.table[i], std.table[j]) < 0
                             /\ compare(std.table[j], std.table[i]) > 0

\* The competitor of rank 3 has W and GD equal to those of the competitor of
\* rank 1 but a higher GF, and is above it in the table.
C15_Witness ==
    /\ DistinctRanks(playersA)
    /\ ~standingsA.threw
    /\ \E i, j \in 1..Len(standingsA.table) :
           LET x == standingsA.table[i]
               y == standingsA.table[j]
           IN  /\ i < j
               /\ x.rank = 3 /\ y.rank = 1
               /\ x.W = y.W /\ x.GD = y.GD /\ x.GF > y.GF

\* The sum of a column of a table.
ColumnSum(table, column) ==
    SumFn([i \in 1..Len(table) |-> table[i][column]], 1..Len(table))

\* The result map holds the records of the roster's schedule and no other:
\* it is the empty map of the schedule but for the score texts.
BuiltFromSchedule ==
    [k \in DOMAIN state.A |-> [state.A[k] EXCEPT !.ag = "", !.bg = ""]] =
        emptyResults(roundRobin(playersA), "A")

\* C30: for every roster with distinct names and every result map built from
\* the roster's schedule, after any sequence of score updates and clears,
\* the sum of W over the rows equals the sum of L, the sum of GF equals the
\* sum of GA, the sum of GD is 0, and in every row W + L is at most N - 1,
\* the number of scheduled matches of a competitor.
C30_TableTotalsBalance ==
    BuiltFromSchedule =>
        \A std \in {standingsA} :
            /\ ~std.threw
            /\ ColumnSum(std.table, "W") = ColumnSum(std.table, "L")
            /\ ColumnSum(std.table, "GF") = ColumnSum(std.table, "GA")
            /\ ColumnSum(std.table, "GD") = 0
            /\ \A i \in 1..Len(std.table) :
                   std.table[i].W + std.table[i].L <= Len(playersA) - 1

\* A roster of three with two matches decided: the first competitor won
\* both of its scheduled matches.
C30_Witness ==
    /\ BuiltFromSchedule
    /\ Len(playersA) = 3
    /\ \A std \in {standingsA} :
           /\ ~std.threw
           /\ ColumnSum(std.table, "W") = 2
           /\ \E i \in 1..Len(std.table) : std.table[i].W + std.table[i].L = 2

---------------------------------------------------------------------------
(* SpecScores: updateScore and clearMatch over the results of two groups *)

\* A group of three and a group of two with the empty results of their
\* schedules, editing unlocked.
InitScores ==
    /\ playersA = AsCompetitors(<<"Ann", "Bob", "Cyd">>)
    /\ playersB = AsCompetitors(<<"Dan", "Eve">>)
    /\ state = [A |-> emptyResults(roundRobin(playersA), "A"),
                B |-> emptyResults(roundRobin(playersB), "B")]
    /\ auth = TRUE
    /\ password = ""
    /\ edits = 0
    /\ discarded = 0
    /\ SeedIdle
    /\ ScheduleIdle
    /\ BracketIdle
    /\ ImportIdle
    /\ DragIdle
    /\ Persisted

\* The score inputs and clear buttons of both groups; a score is typed only
\* while it leaves at most MaxFilled score fields holding a text.
NextScores ==
    \/ \E group \in {"A", "B"} : \E inputs \in {ScoreInputs(group)} :
           \E key \in inputs, field \in {"ag", "bg"}, value \in ScoreTexts :
               /\ auth
               /\ UpdateScore(group, key, field, value)
               /\ ScoreTextsHeld' <= MaxFilled
    \/ \E group \in {"A", "B"} : \E inputs \in {ScoreInputs(group)} :
           \E key \in inputs : auth /\ ClearMatch(group, key)

SpecScores == InitScores /\ [][NextScores]_vars

---------------------------------------------------------------------------
(* Claims about score entry *)

OtherGroup(group) == IF group = "A" THEN "B" ELSE "A"

\* Every record but the one under key, and the whole map of the other
\* group, are as before; the record under key keeps a, b and round.
OnlyTheTarget(group, key) ==
    /\ DOMAIN state'[group] = DOMAIN state[group]
    /\ \A k \in DOMAIN state[group] \ {key} : state'[group][k] = state[group][k]
    /\ state'[OtherGroup(group)] = state[OtherGroup(group)]
    /\ state'[group][key].a = state[group][key].a
    /\ state'[group][key].b = state[group][key].b
    /\ state'[group][key].round = state[group][key].round

\* C25: updateScore(group, key, field, value) and clearMatch(group, key)
\* affect only the targeted match: every other record of that group and the
\* whole result map of the other group are unchanged, the targeted record
\* keeps its a, b and round, updateScore changes only the named score field,
\* and clearMatch sets both score fields to empty.
C25_OnlyTheTargetedMatch ==
    [][\A group \in {"A", "B"} : \A key \in DOMAIN state[group] :
           /\ \A field \in {"ag", "bg"}, value \in ScoreTexts :
                  UpdateScore(group, key, field, value) =>
                      /\ OnlyTheTarget(group, key)
                      /\ state'[group][key][field] = value
                      /\ \A other \in {"ag", "bg"} \ {field} :
                             state'[group][key][other] = state[group][key][other]
           /\ ClearMatch(group, key) =>
                  /\ OnlyTheTarget(group, key)
                  /\ state'[group][key].ag = ""
                  /\ state'[group][key].bg = ""]_vars

\* A match of group A was cleared with a score of another match of group A
\* and a score of group B still in place.
C25_Witness ==
    /\ auth
    /\ playersB # <<>>
    /\ \E k \in DOMAIN state.B : state.B[k].ag = "4"
    /\ \E k, j \in DOMAIN state.A :
           /\ k # j
           /\ state.A[k].bg = "2"
           /\ state.A[j].ag = "" /\ state.A[j].bg = ""

---------------------------------------------------------------------------
(* SpecBracket: the bracket of a render, over bounded groups and results *)

\* A group of n competitors named from position offset + 1 of the name list,
\* ranked by position; and the same group after its first competitor was
\* renamed to the empty text in the ranking editor.
BracketGroups(offset) ==
    UNION {{[i \in 1..n |-> [name |-> AllNames[offset + i], rank |-> offset + i]],
            [i \in 1..n |-> [name |-> IF i = 1 THEN "" ELSE AllNames[offset + i],
                             rank |-> offset + i]]} :
           n \in 0..MaxGroup}

\* The results of a group: none, or one match of its schedule recorded, 4:2
\* or 2:4.
BracketResults(base) ==
    {base} \cup
    UNION {{[base EXCEPT ![k].ag = "4", ![k].bg = "2"],
            [base EXCEPT ![k].ag = "2", ![k].bg = "4"]} : k \in DOMAIN base}

InitBracket ==
    /\ playersA \in BracketGroups(0)
    /\ playersB \in BracketGroups(MaxGroup)
    /\ state \in {[A |-> ra, B |-> rb] :
                     ra \in BracketResults(emptyResults(roundRobin(playersA), "A")),
                     rb \in {emptyResults(roundRobin(playersB), "B")}}
    /\ bracket = <<>>
    /\ pc = "input"
    /\ teams = <<>>
    /\ schedule = <<>>
    /\ SeedIdle
    /\ EditingIdle
    /\ ImportIdle
    /\ DragIdle
    /\ Persisted

\* One render of the component: the standings, their top four, the bracket.
\* A throw of calcStandings ends the render.
Render ==
    /\ pc = "input"
    /\ \E stdA \in {standingsA}, stdB \in {standingsB} :
           IF stdA.threw \/ stdB.threw
           THEN pc' = "threw" /\ UNCHANGED bracket
           ELSE /\ bracket' = composeBracket(top4(stdA.table), top4(stdB.table))
                /\ pc' = "done"
    /\ UNCHANGED <<teams, schedule, ranking, seedingAlgo, playersA, playersB,
                   state, auth, password, edits, discarded, seededWith, selectChanged,
                   readerResult, alerted, draggedIndex,
                   localStorage>>

NextBracket == Render

SpecBracket == InitBracket /\ [][NextBracket]_vars

---------------------------------------------------------------------------
(* Claims about the bracket *)

\* The name at 1-based position k of a standings table.
NameAt(std, k) == std.table[k].name

\* The placeholder of position k of group G.
Placeholder(k, G) ==
    (CASE k = 1 -> "1" [] k = 2 -> "2" [] k = 3 -> "3" [] k = 4 -> "4") \o G

\* The slots of the bracket: matchup, side, group and 1-based position.
BracketSlots ==
    {<<1, "a", "A", 1>>, <<1, "b", "B", 4>>,
     <<2, "a", "A", 2>>, <<2, "b", "B", 3>>,
     <<3, "a", "B", 1>>, <<3, "b", "A", 4>>,
     <<4, "a", "B", 2>>, <<4, "b", "A", 3>>}

SlotValue(sl) == IF sl[2] = "a" THEN bracket[sl[1]].a ELSE bracket[sl[1]].b

StandingsOf(G) == IF G = "A" THEN standingsA ELSE standingsB

\* Some competitor of a group is named by the empty text.
BlankName == "" \in NameSet(playersA) \cup NameSet(playersB)

\* C16: the bracket consists of exactly four matchups labelled CF1..CF4, and
\* when both groups have at least four competitors they are 1st of A vs 4th
\* of B, 2nd of A vs 3rd of B, 1st of B vs 4th of A, 2nd of B vs 3rd of A,
\* by the positions of the current standings tables.
C16_CrossoverOfTopFour ==
    pc # "input" =>
        /\ pc = "done"
        /\ Len(bracket) = 4
        /\ [i \in 1..4 |-> bracket[i].label] = <<"CF1", "CF2", "CF3", "CF4">>
        /\ (Len(playersA) >= 4 /\ Len(playersB) >= 4) =>
               /\ bracket[1].a = NameAt(standingsA, 1) /\ bracket[1].b = NameAt(standingsB, 4)
               /\ bracket[2].a = NameAt(standingsA, 2) /\ bracket[2].b = NameAt(standingsB, 3)
               /\ bracket[3].a = NameAt(standingsB, 1) /\ bracket[3].b = NameAt(standingsA, 4)
               /\ bracket[4].a = NameAt(standingsB, 2) /\ bracket[4].b = NameAt(standingsA, 3)

\* What does hold of the code: the statement of C16 when no competitor is
\* named by the empty text.
CrossoverUnlessBlankName == ~BlankName => C16_CrossoverOfTopFour

\* C17: when a group has fewer than four competitors the bracket is still
\* produced without error; each slot for a missing standings position k of
\* group G holds the placeholder "kG", and each slot for an existing position
\* holds the competitor's name.
C17_PlaceholderForMissing ==
    pc # "input" =>
        /\ pc = "done"
        /\ Len(bracket) = 4
        /\ \A sl \in BracketSlots :
               SlotValue(sl) =
                   IF sl[4] <= Len(StandingsOf(sl[3]).table)
                   THEN NameAt(StandingsOf(sl[3]), sl[4])
                   ELSE Placeholder(sl[4], sl[3])

\* What does hold of the code: the statement of C17 when no competitor is
\* named by the empty text.
PlaceholderUnlessBlankName == ~BlankName => C17_PlaceholderForMissing

---------------------------------------------------------------------------
(* Spec: the component, with its ranking editor, seeding, scores and lock *)

\* The participants of the source, their names written without diacritics.
initialParticipants ==
    <<[name |-> "Marek Vanis", rank |-> 1],
      [name |-> "Dusan Malecek", rank |-> 2],
      [name |-> "Pochy", rank |-> 3],
      [name |-> "David Kapin", rank |-> 4],
      [name |-> "Marek Schneider", rank |-> 5],
      [name |-> "Simon Opekar", rank |-> 6],
      [name |-> "David Rys", rank |-> 7],
      [name |-> "Jakub Mracek", rank |-> 8],
      [name |-> "Ondrej Holboj", rank |-> 9],
      [name |-> "Venca Fal", rank |-> 10],
      [name |-> "Franta Fal", rank |-> 11],
      [name |-> "Vlada Tvrdek", rank |-> 12],
      [name |-> "Martin Klanica", rank |-> 13]>>

\* [...list].sort((a, b) => a.rank - b.rank): a stable sort by rank.
RECURSIVE insertByRank(_, _)
insertByRank(sorted, x) ==
    IF sorted = <<>> THEN <<x>>
    ELSE IF sorted[Len(sorted)].rank - x.rank <= 0 THEN Append(sorted, x)
    ELSE Append(insertByRank(SubSeq(sorted, 1, Len(sorted) - 1), x), sorted[Len(sorted)])

RECURSIVE sortByRank(_, _)
sortByRank(list, n) ==
    IF n = 0 THEN <<>> ELSE insertByRank(sortByRank(list, n - 1), list[n])

\* The objects of the ranking carry an identity, oid: two entries are the
\* same object exactly when their oids are equal.  An object literal or a
\* spread makes an object with an oid not in use.
\* list.map((p, i) => ({ ...p, rank: i + 1 })), the new objects numbered from
\* first.
renumbered(list, first) ==
    [i \in 1..Len(list) |-> [name |-> list[i].name, rank |-> i, oid |-> first + i - 1]]

\* A faulty variant of renumberInPlace: the ranks stay as they were.
keepRanks(list) == list

\* out.forEach((p, i) => { p.rank = i + 1 }): the objects are written to.
renumberInPlace(list) == [i \in 1..Len(list) |-> [list[i] EXCEPT !.rank = i]]

\* What a holder of objects sees after the objects objs were written to.
seenThrough(list, objs) ==
    [j \in 1..Len(list) |->
        IF "oid" \in DOMAIN list[j] /\ \E i \in 1..Len(objs) : objs[i].oid = list[j].oid
        THEN [list[j] EXCEPT
                 !.rank = objs[CHOOSE i \in 1..Len(objs) : objs[i].oid = list[j].oid].rank]
        ELSE list[j]]

\* The oids in use.
oidsOf(list) == {list[j].oid : j \in {i \in 1..Len(list) : "oid" \in DOMAIN list[i]}}

\* An oid above every oid in use.
freshOid ==
    LET used == oidsOf(ranking) \cup oidsOf(playersA) \cup oidsOf(playersB)
    IN  IF used = {} THEN 1 ELSE 1 + CHOOSE m \in used : \A o \in used : o <= m

\* useState(() => { const sorted = [...initialParticipants].sort(...);
\* return sorted.map((p, i) => ({ ...p, rank: i + 1 })) }), for the first
\* InitialPlayers participants.
firstRanking(n) ==
    renumbered(sortByRank(SubSeq(initialParticipants, 1, n), n), 1)

initialRanking == firstRanking(InitialPlayers)

\* The component after its first render with nothing stored: loadState()
\* returns null.
Init ==
    /\ ranking = initialRanking
    /\ seedingAlgo = "had"
    /\ playersA = splitSnake(ranking).A
    /\ playersB = splitSnake(ranking).B
    /\ state = [A |-> emptyResults(roundRobin(playersA), "A"),
                B |-> emptyResults(roundRobin(playersB), "B")]
    /\ auth = FALSE
    /\ password = ""
    /\ edits = 0
    /\ discarded = 0
    /\ seededWith = "default"
    /\ selectChanged = FALSE
    /\ ScheduleIdle
    /\ BracketIdle
    /\ ImportIdle
    /\ DragIdle
    /\ Persisted

\* onChange={(e) => setPassword(e.target.value)}
SetPassword(v) ==
    /\ password' = v
    /\ UNCHANGED <<teams, schedule, pc, ranking, seedingAlgo, playersA,
                   playersB, state, bracket, auth, edits, discarded,
                   seededWith, selectChanged,
                   readerResult, alerted, draggedIndex,
                   localStorage>>

\* handleAuth: a wrong password raises an alert and changes nothing.
HandleAuth ==
    /\ IF password = "tottowolf"
       THEN auth' = TRUE /\ password' = ""
       ELSE UNCHANGED <<auth, password>>
    /\ UNCHANGED <<teams, schedule, pc, ranking, seedingAlgo, playersA,
                   playersB, state, bracket, edits, discarded, seededWith,
                   selectChanged,
                   readerResult, alerted, draggedIndex,
                   localStorage>>

\* onClick={() => setAuth(false)}
Lock ==
    /\ auth' = FALSE
    /\ UNCHANGED <<teams, schedule, pc, ranking, seedingAlgo, playersA,
                   playersB, state, bracket, password, edits, discarded,
                   seededWith, selectChanged,
                   readerResult, alerted, draggedIndex,
                   localStorage>>

\* resetAll: refused without auth, and without the confirmation.
ResetAll(confirmed) ==
    /\ IF auth /\ confirmed
       THEN state' = [A |-> emptyResults(roundRobin(playersA), "A"),
                      B |-> emptyResults(roundRobin(playersB), "B")]
       ELSE UNCHANGED state
    /\ UNCHANGED <<teams, schedule, pc, ranking, seedingAlgo, playersA,
                   playersB, bracket, auth, password, edits, discarded,
                   seededWith, selectChanged,
                   readerResult, alerted, draggedIndex>>
    /\ localStorage' = IF auth /\ confirmed THEN saveState(state') ELSE localStorage

\* The ranking is edited, and nothing else is assigned; playersA and
\* playersB are left to the action, which knows what was written to.
EditFrame ==
    /\ edits' = edits + 1
    /\ UNCHANGED <<teams, schedule, pc, seedingAlgo, state, bracket, auth,
                   password, discarded, seededWith, selectChanged,
                   readerResult, alerted, draggedIndex,
                   localStorage>>

\* renamePlayer(idx, newName): a new object at idx, the others as they were.
RenamePlayer(idx, newName) ==
    /\ ranking' = [ranking EXCEPT ![idx + 1] =
                      [name |-> newName, rank |-> ranking[idx + 1].rank, oid |-> freshOid]]
    /\ UNCHANGED <<playersA, playersB>>
    /\ EditFrame

\* out.splice(idx, 1)
removeAt(list, idx) == SubSeq(list, 1, idx) \o SubSeq(list, idx + 2, Len(list))

\* result.splice(toIndex, 0, moved)
insertAt(list, idx, x) == SubSeq(list, 1, idx) \o <<x>> \o SubSeq(list, idx + 1, Len(list))

\* reorder(list, fromIndex, toIndex)
reorder(list, fromIndex, toIndex) ==
    insertAt(removeAt(list, fromIndex), toIndex, list[fromIndex + 1])

\* deletePlayer(idx): nothing without the confirmation.
DeletePlayer(idx, confirmed) ==
    IF ~confirmed THEN UNCHANGED vars
    ELSE /\ ranking' = renumbered(removeAt(ranking, idx), freshOid)
         /\ UNCHANGED <<playersA, playersB>>
         /\ EditFrame

\* moveUp(idx): the ranks are written into the objects of the ranking.
MoveUp(idx) ==
    IF idx <= 0 THEN UNCHANGED vars
    ELSE /\ ranking' = renumberInPlace(reorder(ranking, idx, idx - 1))
         /\ playersA' = seenThrough(playersA, ranking')
         /\ playersB' = seenThrough(playersB, ranking')
         /\ EditFrame

\* moveDown(idx)
MoveDown(idx) ==
    IF idx >= Len(ranking) - 1 THEN UNCHANGED vars
    ELSE /\ ranking' = renumberInPlace(reorder(ranking, idx, idx + 1))
         /\ playersA' = seenThrough(playersA, ranking')
         /\ playersB' = seenThrough(playersB, ranking')
         /\ EditFrame

\* while (names.includes(candidate)) { count++; candidate = `${base} ${count}` }
\* with base 'Novy hrac' (the source's base carries diacritics).
RECURSIVE uniqueName(_, _, _)
uniqueName(names, count, candidate) ==
    IF candidate \in names
    THEN uniqueName(names, count + 1, "Novy hrac " \o ToString(count + 1))
    ELSE candidate

\* addPlayer
AddPlayer ==
    /\ ranking' =
           renumbered(Append(ranking, [name |-> uniqueName(NameSet(ranking), 1, "Novy hrac"),
                                       rank |-> Len(ranking) + 1]),
                      freshOid)
    /\ UNCHANGED <<playersA, playersB>>
    /\ EditFrame

\* The controls the page offers.  The score inputs, the clear buttons, the
\* reset button and the ranking editor are disabled while auth is false; the
\* password field shows while auth is false and the lock button while it is
\* true; the algorithm select and the seeding button are always enabled.
EditingControlsUpTo(most) ==
    \/ ~auth /\ \E v \in PasswordTexts : SetPassword(v)
    \/ ~auth /\ HandleAuth
    \/ auth /\ Lock
    \/ \E v \in SelectOptions : SetSeedingAlgo(v)
    \/ auth /\ \E confirmed \in BOOLEAN : ResetAll(confirmed)
    \/ auth /\ \E group \in {"A", "B"} : \E inputs \in {ScoreInputs(group)} :
           \E key \in inputs, field \in {"ag", "bg"}, value \in TypedTexts :
               /\ UpdateScore(group, key, field, value)
               /\ edits + ScoreTextsHeld' <= MaxTyped
    \/ auth /\ \E group \in {"A", "B"} : \E inputs \in {ScoreInputs(group)} :
           \E key \in inputs : ClearMatch(group, key)
    \/ auth /\ edits < MaxEdits /\
           \E idx \in 0..(Len(ranking) - 1), newName \in RenameTexts :
               RenamePlayer(idx, newName)
    \/ auth /\ edits < MaxEdits /\
           \E idx \in 0..(Len(ranking) - 1), confirmed \in BOOLEAN :
               DeletePlayer(idx, confirmed)
    \/ auth /\ edits < MaxEdits /\ \E idx \in 1..(Len(ranking) - 1) : MoveUp(idx)
    \/ auth /\ edits < MaxEdits /\ \E idx \in 0..(Len(ranking) - 2) : MoveDown(idx)
    \/ auth /\ edits < MaxEdits /\ Len(ranking) < most /\ AddPlayer

\* The controls, with addPlayer used on rankings shorter than MaxPlayers.
EditingControls == EditingControlsUpTo(MaxPlayers)

Next ==
    \/ ApplySeeding
    \/ EditingControls

Spec == Init /\ [][Next]_vars

\* useMemo(() => roundRobin(playersA), [playersA])
scheduleA == roundRobin(playersA)

scheduleB == roundRobin(playersB)

---------------------------------------------------------------------------
(* Claims about seeding operations and what they leave alone *)

\* Every record of both result maps has both score fields empty.
AllScoresEmpty ==
    \A g \in {"A", "B"} : \A k \in DOMAIN state[g] :
        state[g][k].ag = "" /\ state[g][k].bg = ""

\* The result maps hold a record for exactly the pairings of the schedules.
ExactlyTheSchedules ==
    /\ DOMAIN state.A = ScheduleKeys("A")
    /\ DOMAIN state.B = ScheduleKeys("B")
    /\ Cardinality(DOMAIN state.A) = Cardinality(Slots(scheduleA))
    /\ Cardinality(DOMAIN state.B) = Cardinality(Slots(scheduleB))

\* C18: applying a seeding operation discards every earlier result: in the
\* state immediately after applySeeding, whatever scores were entered
\* before, the result maps of both groups hold exactly the matches of the
\* newly generated schedules, each with both score fields empty.
C18_SeedingDiscardsResults ==
    [][ApplySeeding => (ExactlyTheSchedules /\ AllScoresEmpty)']_vars

\* A seeding operation has just discarded a score, and the groups have a
\* match between them.
C18_Witness ==
    /\ discarded > 0
    /\ seededWith \in SelectOptions
    /\ DOMAIN state.A \cup DOMAIN state.B # {}
    /\ AllScoresEmpty

\* C19: the group rosters and their schedules change only by a seeding
\* operation: add, rename, delete, move up, move down, change of the
\* selected algorithm, score update, match clear, reset, lock and unlock
\* leave both rosters, with the ranks stored in them, and both schedules
\* unchanged: a step that changes any of them is a step of applySeeding.
C19_GroupsChangeOnlyBySeeding ==
    [][(\/ playersA' # playersA
        \/ playersB' # playersB
        \/ scheduleA' # scheduleA
        \/ scheduleB' # scheduleB) => ApplySeeding]_vars

\* The second participant was moved to the top of the ranking and has rank
\* 1 there, the select was changed and editing locked again; the groups are
\* those of the first render, where it has rank 2.
C19_Witness ==
    /\ edits = 1
    /\ ~auth
    /\ selectChanged
    /\ seededWith = "default"
    /\ ranking[1].name = initialParticipants[2].name
    /\ ranking[1].rank = 1
    /\ playersA = splitSnake(initialRanking).A
    /\ playersB = splitSnake(initialRanking).B
    /\ playersB[1] = [name |-> initialParticipants[2].name, rank |-> 2]

---------------------------------------------------------------------------
(* SpecImport: onImport, as src/unnamed/part_000 and src/src/App.jsx have it *)

\* The values of JavaScript that are no objects.  An object is modelled by
\* the function from its keys to its values, {} by the empty function.
null == [null |-> TRUE]

undefined == [undefined |-> TRUE]

\* The texts of the files offered to the import: an empty file, a cut-off
\* text, null, objects with none, one or both of the group keys, an object
\* whose key A holds null, and an export with one recorded match.
FileTexts ==
    {"", "{", "null", "{}",
     "{\"A\":{}}", "{\"B\":{}}", "{\"A\":{},\"B\":{}}",
     "{\"A\":null,\"B\":{}}",
     "{\"A\":{\"A::Ann__Bob\":{\"a\":\"Ann\",\"b\":\"Bob\",\"round\":1,\"ag\":\"4\",\"bg\":\"2\"}},\"B\":{}}"}

\* JSON.parse(text) on the texts of FileTexts: the value, or a SyntaxError.
JSONparse(text) ==
    CASE text = "null" -> [threw |-> FALSE, value |-> null]
      [] text = "{}" -> [threw |-> FALSE, value |-> <<>>]
      [] text = "{\"A\":{}}" -> [threw |-> FALSE, value |-> [A |-> <<>>]]
      [] text = "{\"B\":{}}" -> [threw |-> FALSE, value |-> [B |-> <<>>]]
      [] text = "{\"A\":{},\"B\":{}}" -> [threw |-> FALSE, value |-> [A |-> <<>>, B |-> <<>>]]
      [] text = "{\"A\":null,\"B\":{}}" -> [threw |-> FALSE, value |-> [A |-> null, B |-> <<>>]]
      [] text = "{\"A\":{\"A::Ann__Bob\":{\"a\":\"Ann\",\"b\":\"Bob\",\"round\":1,\"ag\":\"4\",\"bg\":\"2\"}},\"B\":{}}" ->
             [threw |-> FALSE,
              value |-> [A |-> WithEntry(<<>>, idFor("A", "Ann", "Bob"),
                                         [a |-> "Ann", b |-> "Bob", round |-> 1,
                                          ag |-> "4", bg |-> "2"]),
                         B |-> <<>>]]
      [] OTHER -> [threw |-> TRUE, value |-> undefined]

\* parsed.A: the value under the key, undefined without the key.  The read
\* throws a TypeError on null.
Get(obj, key) == IF key \in DOMAIN obj THEN obj[key] ELSE undefined

\* The truthiness of an object, null or undefined.
ToBoolean(v) == v # null /\ v # undefined

\* e.target.files: no file, or one file with its text.
FileLists == {<<>>} \cup {<<text>> : text \in FileTexts}

ImportFrame ==
    UNCHANGED <<teams, schedule, pc, ranking, seedingAlgo, playersA, playersB,
                bracket, auth, password, edits, discarded, seededWith,
                selectChanged, draggedIndex>>

\* onImport of src/unnamed/part_000, with the reader's onload.
OnImport(files) ==
    IF files = <<>> THEN UNCHANGED vars
    ELSE \E parsed \in {JSONparse(files[1])} :
            /\ readerResult' = files[1]
            /\ IF parsed.threw \/ parsed.value = null
               THEN alerted' = "Soubor nelze nacist." /\ UNCHANGED <<state, localStorage>>
               ELSE IF ToBoolean(Get(parsed.value, "A")) /\ ToBoolean(Get(parsed.value, "B"))
                    THEN /\ state' = parsed.value
                         /\ alerted' = ""
                         /\ localStorage' = saveState(state')
                    ELSE /\ alerted' = "Soubor nema pozadovany format."
                         /\ UNCHANGED <<state, localStorage>>
            /\ ImportFrame

\* onImport of src/src/App.jsx, with the reader's onload.
OnImportApp(files) ==
    IF files = <<>> THEN UNCHANGED vars
    ELSE \E parsed \in {JSONparse(files[1])} :
            /\ readerResult' = files[1]
            /\ IF parsed.threw
               THEN alerted' = "Soubor nelze nacist" /\ UNCHANGED <<state, localStorage>>
               ELSE /\ state' = parsed.value
                    /\ alerted' = ""
                    /\ localStorage' = saveState(state')
            /\ ImportFrame

\* The page with two groups and the results of an earlier session.
InitImport ==
    /\ playersA \in BracketGroups(0)
    /\ playersB \in BracketGroups(MaxGroup)
    /\ state \in {[A |-> ra, B |-> rb] :
                     ra \in BracketResults(emptyResults(roundRobin(playersA), "A")),
                     rb \in {emptyResults(roundRobin(playersB), "B")}}
    /\ readerResult = ""
    /\ alerted = ""
    /\ ScheduleIdle
    /\ SeedIdle
    /\ BracketIdle
    /\ EditingIdle
    /\ DragIdle
    /\ Persisted

NextImport ==
    \/ \E files \in FileLists : OnImport(files)
    \/ \E files \in FileLists : OnImportApp(files)

SpecImport == InitImport /\ [][NextImport]_vars

---------------------------------------------------------------------------
(* Claims about the import *)

\* The value is an object that has the key.
ContainsKey(v, key) == v # null /\ v # undefined /\ key \in DOMAIN v

\* The text cannot be parsed, or the value it parses to lacks a group key.
LacksAKey(text) ==
    \E parsed \in {JSONparse(text)} :
        parsed.threw \/ ~ContainsKey(parsed.value, "A") \/ ~ContainsKey(parsed.value, "B")

\* C20: an import is accepted only when the imported object contains both
\* group keys A and B; an import whose object lacks either key, or whose
\* text cannot be parsed, is rejected, and the result state after it equals
\* the result state before it.
C20_ImportNeedsBothKeys ==
    [][/\ LacksAKey(readerResult') => (alerted' # "" /\ state' = state)
       /\ alerted' = "" => ~LacksAKey(readerResult')]_vars

\* The same, of the steps of the handler of src/unnamed/part_000 alone.
CheckedImportNeedsBothKeys ==
    [][(\E files \in FileLists : OnImport(files)) =>
           /\ LacksAKey(readerResult') => (alerted' # "" /\ state' = state)
           /\ alerted' = "" => ~LacksAKey(readerResult')]_vars

\* An import of an object without the key B was rejected with the results
\* of the earlier session still in place.
CheckedImportWitness ==
    /\ readerResult = "{\"A\":{}}"
    /\ alerted = "Soubor nema pozadovany format."
    /\ state # [A |-> <<>>]
    /\ DOMAIN state.A # {}

---------------------------------------------------------------------------
(* Claims about the lock *)

\* Every record that holds a score text is in the next state as it is.
RecordedResultsKept ==
    \A g \in {"A", "B"} : \A k \in DOMAIN state[g] :
        (state[g][k].ag # "" \/ state[g][k].bg # "") =>
            (k \in DOMAIN state'[g] /\ state'[g][k] = state[g][k])

\* C24: editing match results is password protected: in every reachable
\* state in which editing is locked (auth = false), no action that the
\* interface leaves enabled changes any recorded match result; results
\* change only after the correct password has unlocked editing and before it
\* is locked again.
C24_LockedResultsStay ==
    [][~auth => RecordedResultsKept]_vars

\* What does hold of the code: while editing is locked, every control but
\* the seeding button leaves the result state as it is.
LockedResultsStayUnlessSeeding ==
    [][(~auth /\ ~ApplySeeding) => state' = state]_vars

\* Editing is locked again with a score in place.
LockedWithScoreWitness ==
    ~auth /\ ScoreTextsHeld > 0

---------------------------------------------------------------------------
(* SpecRanking: the ranking editor and the draggable ranking list *)

\* The first render, editing unlocked.
InitRanking ==
    /\ ranking = initialRanking
    /\ seedingAlgo = "had"
    /\ playersA = splitSnake(ranking).A
    /\ playersB = splitSnake(ranking).B
    /\ state = [A |-> emptyResults(roundRobin(playersA), "A"),
                B |-> emptyResults(roundRobin(playersB), "B")]
    /\ auth = TRUE
    /\ password = ""
    /\ edits = 0
    /\ discarded = 0
    /\ seededWith = "default"
    /\ selectChanged = FALSE
    /\ ScheduleIdle
    /\ BracketIdle
    /\ ImportIdle
    /\ DragIdle
    /\ Persisted

\* handleDragStart(idx)
HandleDragStart(idx) ==
    /\ draggedIndex' = <<idx>>
    /\ UNCHANGED <<teams, schedule, pc, ranking, seedingAlgo, playersA, playersB,
                   state, bracket, auth, password, edits, discarded, seededWith,
                   selectChanged, readerResult, alerted, localStorage>>

\* handleDrop(idx): the ranks are written into the objects of the ranking.
HandleDrop(idx) ==
    IF draggedIndex = <<>> \/ draggedIndex = <<idx>>
    THEN /\ draggedIndex' = <<>>
         /\ UNCHANGED <<teams, schedule, pc, ranking, seedingAlgo, playersA,
                        playersB, state, bracket, auth, password, edits, discarded,
                        seededWith, selectChanged, readerResult, alerted, localStorage>>
    ELSE /\ ranking' = renumberInPlace(reorder(ranking, draggedIndex[1], idx))
         /\ playersA' = seenThrough(playersA, ranking')
         /\ playersB' = seenThrough(playersB, ranking')
         /\ draggedIndex' = <<>>
         /\ edits' = edits + 1
         /\ UNCHANGED <<teams, schedule, pc, seedingAlgo, state, bracket, auth,
                        password, discarded, seededWith, selectChanged,
                        readerResult, alerted, localStorage>>

\* The controls of the ranking editor and the items of the draggable list.
\* A drag that has started ends with a drop on an item or is started anew;
\* the buttons of the editor are not clicked during a drag.
NextRanking ==
    \/ draggedIndex = <<>> /\ auth /\ edits < MaxRankingEdits /\
           \E idx \in 0..(Len(ranking) - 1), newName \in RenameTexts :
               RenamePlayer(idx, newName)
    \/ draggedIndex = <<>> /\ auth /\ edits < MaxRankingEdits /\
           \E idx \in 0..(Len(ranking) - 1), confirmed \in BOOLEAN :
               DeletePlayer(idx, confirmed)
    \/ draggedIndex = <<>> /\ auth /\ edits < MaxRankingEdits /\
           \E idx \in 1..(Len(ranking) - 1) : MoveUp(idx)
    \/ draggedIndex = <<>> /\ auth /\ edits < MaxRankingEdits /\
           \E idx \in 0..(Len(ranking) - 2) : MoveDown(idx)
    \/ draggedIndex = <<>> /\ auth /\ edits < MaxRankingEdits /\
           Len(ranking) < MaxPlayers /\ AddPlayer
    \/ edits < MaxRankingEdits /\ \E idx \in 0..(Len(ranking) - 1) : HandleDragStart(idx)
    \/ draggedIndex # <<>> /\ \E idx \in 0..(Len(ranking) - 1) : HandleDrop(idx)

SpecRanking == InitRanking /\ [][NextRanking]_vars

---------------------------------------------------------------------------
(* Claims about the master ranking *)

\* C22: in every reachable state the master ranking has ranking[i].rank =
\* i + 1 for every index i, after any sequence of add, rename, delete,
\* move-up, move-down and drag-reorder operations (the sequences of the
\* model are indexed from 1, so the rank at place i is i).
C22_RankIsIndexPlusOne ==
    \A i \in 1..Len(ranking) : ranking[i].rank = i

\* The second participant was brought to the top and a player was added
\* behind: three edits, no drag in progress.
C22_Witness ==
    /\ edits = MaxRankingEdits
    /\ draggedIndex = <<>>
    /\ Len(ranking) = InitialPlayers + 1
    /\ ranking[1].name = initialParticipants[2].name
    /\ ranking[Len(ranking)].rank = Len(ranking)

\* C23: in every reachable state the names of the master ranking are
\* pairwise distinct, after any sequence of add, rename, delete and move
\* operations; in particular addPlayer always inserts a name different from
\* every name already in the ranking.
C23_NamesDistinct ==
    Cardinality(NameSet(ranking)) = Len(ranking)

\* What does hold of the code: the part of C23 about addPlayer.
AddPlayerInsertsNewName ==
    [][AddPlayer => ranking'[Len(ranking')].name \notin NameSet(ranking)]_vars

\* A player was added to a ranking that holds the name "Novy hrac" already.
AddPlayerWitness ==
    /\ edits > 1
    /\ \E i \in 1..Len(ranking) : ranking[i].name = "Novy hrac 2"

---------------------------------------------------------------------------
(* SpecSession: start-up from the stored item, the controls, reloads *)

\* The items found under the storage key at the first start-up: texts as in
\* FileTexts.
StoredTexts == {<<[raw |-> text]>> : text \in FileTexts}

\* JSON.parse(raw) of an item: a saved item gives back the value saved.
parseItem(item) ==
    IF "json" \in DOMAIN item
    THEN [threw |-> FALSE, value |-> item.json]
    ELSE JSONparse(item.raw)

\* loadState(): null without an item, with an empty item and with an item
\* that does not parse; else the value parsed.
loadState ==
    IF localStorage = <<>> THEN null
    ELSE IF "raw" \in DOMAIN localStorage[1] /\ localStorage[1].raw = "" THEN null
    ELSE IF parseItem(localStorage[1]).threw THEN null
    ELSE parseItem(localStorage[1]).value

\* The value is an object with objects under both group keys.
HasGroups(v) ==
    /\ ToBoolean(v) /\ ToBoolean(Get(v, "A")) /\ ToBoolean(Get(v, "B"))

\* The first render of src/unnamed/part_001 goes through: both standings
\* are computed and every pairing of both schedules finds its record.
RendersNext == HasGroups(state') /\ Rendered'

\* playersA and playersB of src/src/App.jsx, of the first SessionPlayers
\* seeds.
appPlayersA ==
    SelectSeq(<<[name |-> "Marek Vanis", rank |-> 1],
                [name |-> "Pochy", rank |-> 3],
                [name |-> "David Kapin", rank |-> 4],
                [name |-> "Marek Schneider", rank |-> 5],
                [name |-> "Franta Fal", rank |-> 11],
                [name |-> "Vlad da Tvrdek", rank |-> 12],
                [name |-> "Martin Klanica", rank |-> 13]>>,
              LAMBDA p : p.rank <= SessionPlayers)

appPlayersB ==
    SelectSeq(<<[name |-> "Dusan Malecek", rank |-> 2],
                [name |-> "Simon Opekar", rank |-> 6],
                [name |-> "David Rys", rank |-> 7],
                [name |-> "Jakub Mracek", rank |-> 8],
                [name |-> "Ondrej Holboj", rank |-> 9],
                [name |-> "Venca Fal", rank |-> 10]>>,
              LAMBDA p : p.rank <= SessionPlayers)

\* calcStandings of src/src/App.jsx throws: it has no test of the index, so
\* a record with two scores that names a competitor outside the roster
\* reads GF of undefined.
appStandingsThrow(roster, results) ==
    \E k \in DOMAIN results :
        /\ ~isNull(results[k])
        /\ recorded(results[k].ag, results[k].bg)
        /\ ~({results[k].a, results[k].b} \subseteq NameSet(roster))

\* The first render of src/src/App.jsx goes through.
AppRendersNext ==
    /\ HasGroups(state')
    /\ ~appStandingsThrow(playersA', state'.A)
    /\ ~appStandingsThrow(playersB', state'.B)
    /\ ScheduleKeys("A")' \subseteq DOMAIN state'.A
    /\ ScheduleKeys("B")' \subseteq DOMAIN state'.B

\* The page is not loaded yet; the storage holds no item, or a text.
InitSession ==
    /\ localStorage \in {<<>>} \cup StoredTexts
    /\ pc = "start"
    /\ teams = <<>>
    /\ schedule = <<>>
    /\ SeedIdle
    /\ GroupsIdle
    /\ ResultsIdle
    /\ BracketIdle
    /\ EditingIdle
    /\ ImportIdle
    /\ DragIdle

\* The page of src/unnamed/part_001 is loaded: the initialisers of ranking,
\* groups and state run, the component renders, and after a render that
\* went through the effect saves the state.
StartUp ==
    /\ pc \in {"start", "idle", "threw"}
    /\ ranking' = firstRanking(SessionPlayers)
    /\ seedingAlgo' = "had"
    /\ playersA' = splitSnake(ranking').A
    /\ playersB' = splitSnake(ranking').B
    /\ \E loaded \in {loadState} :
           state' = IF HasGroups(loaded) THEN loaded
                    ELSE [A |-> emptyResults(roundRobin(playersA'), "A"),
                          B |-> emptyResults(roundRobin(playersB'), "B")]
    /\ auth' = FALSE
    /\ password' = ""
    /\ draggedIndex' = <<>>
    /\ seededWith' = "default"
    /\ selectChanged' = FALSE
    /\ discarded' = 0
    /\ pc' = IF RendersNext THEN "idle" ELSE "threw"
    /\ localStorage' = IF pc' = "idle" THEN saveState(state') ELSE localStorage
    /\ UNCHANGED <<teams, schedule, bracket, edits, readerResult, alerted>>

\* The page of src/src/App.jsx is loaded: initial = loadState() || the empty
\* results of its schedules.
StartUpApp ==
    /\ pc = "start"
    /\ playersA' = appPlayersA
    /\ playersB' = appPlayersB
    /\ \E loaded \in {loadState} :
           state' = IF ToBoolean(loaded) THEN loaded
                    ELSE [A |-> emptyResults(roundRobin(playersA'), "A"),
                          B |-> emptyResults(roundRobin(playersB'), "B")]
    /\ pc' = IF AppRendersNext THEN "done" ELSE "threw-app"
    /\ localStorage' = IF pc' = "done" THEN saveState(state') ELSE localStorage
    /\ UNCHANGED <<teams, schedule, ranking, seedingAlgo, bracket, auth, password,
                   edits, discarded, seededWith, selectChanged, readerResult,
                   alerted, draggedIndex>>

\* The page is loaded or reloaded at any time; the controls of the page of
\* src/unnamed/part_001 are there once it has rendered.
NextSession ==
    \/ StartUp
    \/ StartUpApp
    \/ pc = "idle" /\ ApplySeeding
    \/ pc = "idle" /\ EditingControlsUpTo(SessionPlayers + 1)

SpecSession == InitSession /\ [][NextSession]_vars

---------------------------------------------------------------------------
(* Claims about start-up and the stored results *)

\* The empty results of the schedules of the two groups.
EmptyOfSchedules ==
    [A |-> emptyResults(roundRobin(playersA), "A"),
     B |-> emptyResults(roundRobin(playersB), "B")]

\* The stored value is absent, does not parse, or lacks key A or key B.
LoadFails ==
    \/ loadState = null
    \/ ~ContainsKey(loadState, "A")
    \/ ~ContainsKey(loadState, "B")

\* The page has thrown during its first render.
Threw == pc \in {"threw", "threw-app"}

\* C21: when the stored value is absent, does not parse or lacks key A or
\* key B, start-up raises no error and the results start as the empty results
\* of the current schedules.
C21_FailedLoadStartsEmpty ==
    [][((StartUp \/ StartUpApp) /\ LoadFails)
           => (~Threw' /\ state' = EmptyOfSchedules')]_vars

\* The part of C21 that holds: the start-up of src/unnamed/part_001.
FailedLoadStartsEmptyInEditor ==
    [][(StartUp /\ LoadFails) => (~Threw' /\ state' = EmptyOfSchedules')]_vars

\* A start-up of src/unnamed/part_001 from a stored text without key B has
\* rendered the empty results.
FailedLoadWitness ==
    /\ pc = "idle"
    /\ ~auth /\ edits = 0
    /\ state = EmptyOfSchedules
    /\ state.B # <<>>

\* The keys of the stored results are those of the schedules after start-up.
SavedKeysMatchNext ==
    /\ HasGroups(loadState)
    /\ DOMAIN loadState.A = ScheduleKeys("A")'
    /\ DOMAIN loadState.B = ScheduleKeys("B")'

\* C27: at start-up the stored results are used only if their keys match the
\* current schedules; otherwise the results start empty.
C27_SavedUsedOnlyIfKeysMatch ==
    [][(StartUp /\ ~SavedKeysMatchNext) => state' = EmptyOfSchedules']_vars

\* The part of C27 that holds: stored results whose keys match are used.
SavedWithMatchingKeysUsed ==
    [][(StartUp /\ SavedKeysMatchNext) => state' = loadState]_vars

\* Stored results with a score were used at a reload.
SavedUsedWitness ==
    /\ pc = "idle"
    /\ ~auth /\ edits > 0
    /\ state # EmptyOfSchedules
    /\ DOMAIN state.B = ScheduleKeys("B")

\* Every pairing of both schedules has its record.
EveryPairingHasRecord ==
    /\ HasGroups(state)
    /\ ScheduleKeys("A") \subseteq DOMAIN state.A
    /\ ScheduleKeys("B") \subseteq DOMAIN state.B

\* C28: in every state of the page, also after a reload from the stored
\* results, every pairing of the current schedule of a group has its record
\* in the results of that group.
C28_EveryPairingHasRecord ==
    pc \in {"idle", "threw"} => EveryPairingHasRecord

\* The part of C28 that holds: the controls keep a record for every pairing.
ControlsKeepRecords ==
    [][(EveryPairingHasRecord /\ ~StartUp /\ ~StartUpApp)
           => EveryPairingHasRecord']_vars

\* A seeding and a typed score have left a record for every pairing.
ControlsKeepRecordsWitness ==
    /\ pc = "idle"
    /\ seededWith # "default"
    /\ edits > 0
    /\ EveryPairingHasRecord

\* Results saved by the page after a seeding were loaded against the schedules
\* of the default groups, and the render threw on a pairing without record.
StaleReloadWitness ==
    /\ pc = "threw"
    /\ localStorage # <<>>
    /\ "json" \in DOMAIN localStorage[1]
    /\ state = localStorage[1].json
    /\ ~EveryPairingHasRecord

=============================================================================
